---- MODULE Spec2Model ----
(***************************************************************************)
(* Model of the two protocol engines of the WhatsApp-Flow webhook backend: *)
(*   - the flow data-exchange channel: decryptRequest / encryptResponse    *)
(*     and the dispatcher that threads key and IV between them;            *)
(*   - the media decryptor: decryptWhatsAppImage (AES-256-CBC with a       *)
(*     10-byte HMAC-SHA256 trailer).                                       *)
(* Buffers are sequences of bytes (0..255); base64 text is a sequence of   *)
(* sextets (0..63) with Pad for '='.  The library primitives (SHA-256,     *)
(* HMAC, AES, RSA-OAEP) are replaced by small keyed functions with the     *)
(* same interface, the same lengths and the same failure conditions; the   *)
(* control flow around them is the source's.                               *)
(***************************************************************************)
EXTENDS Integers, Sequences, FiniteSets, TLC

(***************************************************************************)
(* Bounds of the model and constants of the program                        *)
(***************************************************************************)
MaxPlainLen == 16      \* longest media plaintext the sender encrypts
MacTrailerLen == 10    \* encBuf.subarray(encBuf.length - 10)
BlockLen == 16         \* cipherText.length % 16
EncKeyLen == 32        \* keyBuf.length !== 32
MacKeyLen == 32        \* macKeyBuf.length !== 32
IvLen == 16            \* ivBuf.length !== 16
DigestLen == 32        \* output size of sha256
GcmTagLen == 16        \* tagLength: 128
Pad == 64              \* the base64 character '='

(***************************************************************************)
(* Bytes                                                                   *)
(***************************************************************************)
RECURSIVE Xor(_, _)
Xor(a, b) ==
  IF a = 0 THEN b
  ELSE IF b = 0 THEN a
  ELSE (((a % 2) + (b % 2)) % 2) + 2 * Xor(a \div 2, b \div 2)

\* (the byte left as it is)
FlipByteUnflipped(byte) == byte % 256

\* (the byte negated: the two's complement in place of the one's complement)
FlipByteNegated(byte) == (0 - byte) % 256

\* (byte) => ~byte & 0xFF : NOT on a 32-bit integer is -byte-1, the mask keeps 8 bits
FlipByte(byte) == ((0 - byte) - 1) % 256

Fill(n, seed) == [i \in 1..n |-> (seed + 3 * i) % 256]

(***************************************************************************)
(* base64: Buffer.from(text, 'base64') and buf.toString('base64')          *)
(***************************************************************************)
\* buf.toString('base64'): three bytes give four characters, the tail is padded with '='
Base64Encode(buf) ==
  LET n == Len(buf)
      byte(i) == IF i <= n THEN buf[i] ELSE 0
  IN  [j \in 1..(4 * ((n + 2) \div 3)) |->
         LET g == (j - 1) \div 4
             pos == (j - 1) % 4
             w == byte(3 * g + 1) * 65536 + byte(3 * g + 2) * 256 + byte(3 * g + 3)
         IN  IF (pos = 2 /\ 3 * g + 2 > n) \/ (pos = 3 /\ 3 * g + 3 > n) THEN Pad
             ELSE IF pos = 0 THEN w \div 262144
             ELSE IF pos = 1 THEN (w \div 4096) % 64
             ELSE IF pos = 2 THEN (w \div 64) % 64
             ELSE w % 64]

\* Buffer.from(text, 'base64'): the characters before the first '=' are decoded,
\* six bits each; bits that do not fill a byte are dropped
Base64Decode(text) ==
  LET pads == {i \in 1..Len(text) : text[i] = Pad}
      d == IF pads = {} THEN Len(text)
           ELSE (CHOOSE i \in pads : \A j \in pads : i <= j) - 1
      sextet(i) == IF i <= d THEN text[i] ELSE 0
  IN  [k \in 1..((d * 6) \div 8) |->
         LET g == (k - 1) \div 3
             r == (k - 1) % 3
             w == sextet(4 * g + 1) * 262144 + sextet(4 * g + 2) * 4096
                    + sextet(4 * g + 3) * 64 + sextet(4 * g + 4)
         IN  IF r = 0 THEN w \div 65536
             ELSE IF r = 1 THEN (w \div 256) % 256
             ELSE w % 256]

(***************************************************************************)
(* Digest and MAC (createHash('sha256'), createHmac('sha256', key))        *)
(***************************************************************************)
\* a position-weighted sum of the bytes lo..hi of buf
RECURSIVE Mix(_, _, _)
Mix(buf, lo, hi) ==
  IF lo > hi THEN 0
  ELSE IF lo = hi THEN (buf[lo] + 1) * (2 * lo + 1)
  ELSE LET mid == (lo + hi) \div 2
       IN  Mix(buf, lo, mid) + Mix(buf, mid + 1, hi)

Spread(m) ==
  [i \in 1..DigestLen |->
     IF i = 1 THEN m % 256
     ELSE IF i = 2 THEN m \div 256
     ELSE (m * i + 7 * i) % 256]

Sha256(buf) == Spread((17 + Mix(buf, 1, Len(buf))) % 65521)

\* createHmac('sha256', key).update(a).update(b).digest() is the MAC of a || b
HmacSha256(key, msg) ==
  Spread((29 + 3 * Mix(key, 1, Len(key)) + Mix(msg, 1, Len(msg))) % 65521)

(***************************************************************************)
(* AES-256-CBC with PKCS#7 padding (createDecipheriv('aes-256-cbc', ...))  *)
(***************************************************************************)
KeyByte(key, i) == (key[((i - 1) % BlockLen) + 1] + key[((i - 1) % BlockLen) + 1 + BlockLen]) % 256

Pkcs7Pad(plain) ==
  LET n == BlockLen - (Len(plain) % BlockLen)
  IN  plain \o [i \in 1..n |-> n]

\* the blocks from number b on, each chained to the ciphertext block before it
RECURSIVE CbcEncryptFrom(_, _, _, _)
CbcEncryptFrom(key, prev, padded, b) ==
  IF b * BlockLen > Len(padded) THEN << >>
  ELSE
    LET block == [j \in 1..BlockLen |->
                    (Xor(padded[(b - 1) * BlockLen + j], prev[j]) + KeyByte(key, j)) % 256]
    IN  block \o CbcEncryptFrom(key, block, padded, b + 1)

\* what the sender does: AES-256-CBC of the padded plaintext
CbcEncrypt(key, iv, plain) == CbcEncryptFrom(key, iv, Pkcs7Pad(plain), 1)

\* the same without padding (a sender that forgot to pad)
CbcEncryptRaw(key, iv, blocks) == CbcEncryptFrom(key, iv, blocks, 1)

CbcDecryptRaw(key, iv, ct) ==
  [i \in 1..Len(ct) |->
     LET prev == IF i <= BlockLen THEN iv[i] ELSE ct[i - BlockLen]
     IN  Xor((ct[i] - KeyByte(key, i)) % 256, prev)]

\* decipher.final() with auto padding: the last byte n is 1..16 and the last n bytes are n
Pkcs7Valid(padded) ==
  /\ Len(padded) > 0
  /\ Len(padded) % BlockLen = 0
  /\ LET n == padded[Len(padded)]
     IN  /\ n >= 1
         /\ n <= BlockLen
         /\ \A i \in (Len(padded) - n + 1)..Len(padded) : padded[i] = n

Pkcs7Unpad(padded) == SubSeq(padded, 1, Len(padded) - padded[Len(padded)])

(***************************************************************************)
(* AES-GCM with a 128-bit tag (crypto.subtle.encrypt / decrypt)            *)
(***************************************************************************)
ValidAesKeyLen(n) == n \in {16, 24, 32}

GcmTag(key, iv, ct) ==
  SubSeq(Spread((41 + 3 * Mix(key, 1, Len(key)) + 7 * Mix(iv, 1, Len(iv))
                    + Mix(ct, 1, Len(ct))) % 65521), 1, GcmTagLen)

GcmStream(key, iv) == Mix(key, 1, Len(key)) + 5 * Mix(iv, 1, Len(iv))

\* ciphertext followed by the tag
AesGcmEncrypt(key, iv, plain) ==
  LET s  == GcmStream(key, iv)
      ct == [i \in 1..Len(plain) |-> Xor(plain[i], (s + 11 * i) % 256)]
  IN  ct \o GcmTag(key, iv, ct)

\* (a decryption that does not compare the tag)
AesGcmValidLengthOnly(key, iv, data) == Len(data) >= GcmTagLen

AesGcmValid(key, iv, data) ==
  /\ Len(data) >= GcmTagLen
  /\ LET ct == SubSeq(data, 1, Len(data) - GcmTagLen)
     IN  SubSeq(data, Len(data) - GcmTagLen + 1, Len(data)) = GcmTag(key, iv, ct)

AesGcmDecrypt(key, iv, data) ==
  LET s == GcmStream(key, iv)
  IN  [i \in 1..(Len(data) - GcmTagLen) |-> Xor(data[i], (s + 11 * i) % 256)]

(***************************************************************************)
(* RSA-OAEP key wrap (crypto.subtle.decrypt with the imported private key) *)
(***************************************************************************)
PrivateKey == 91
RsaBlockLen == EncKeyLen + 3

OaepCheck(key) == (53 + Mix(key, 1, Len(key)) + 97 * Len(key)) % 65521

\* what the platform does with the public key: a check value, the length, the masked key
RsaOaepEncrypt(pub, key) ==
  LET m == OaepCheck(key)
  IN  << m % 256, m \div 256, (Len(key) + pub) % 256 >>
        \o [i \in 1..EncKeyLen |-> ((IF i <= Len(key) THEN key[i] ELSE 0) + pub + i) % 256]

RsaOaepUnmask(priv, buf) ==
  LET n == (buf[3] - priv) % 256
  IN  [i \in 1..(IF n <= EncKeyLen THEN n ELSE 0) |-> (buf[3 + i] - priv - i) % 256]

RsaOaepValid(priv, buf) ==
  /\ Len(buf) = RsaBlockLen
  /\ LET n == (buf[3] - priv) % 256
     IN  /\ n <= EncKeyLen
         /\ \A i \in (n + 1)..EncKeyLen : (buf[3 + i] - priv - i) % 256 = 0
         /\ OaepCheck(RsaOaepUnmask(priv, buf)) = buf[1] + 256 * buf[2]

RsaOaepDecrypt(priv, buf) == RsaOaepUnmask(priv, buf)

\* message of the OperationError that crypto.subtle.decrypt rejects with; Node's
\* WebCrypto gives this one message for RSA-OAEP and for AES-GCM failures alike,
\* and decryptRequest adds nothing of its own to tell the two apart
OperationErrorMessage == "The operation failed for an operation-specific reason"

(***************************************************************************)
(* JSON: the texts of the flow protocol, JSON.parse and JSON.stringify     *)
(***************************************************************************)
\* {"action":"ping"}
TextPing ==
  << 123, 34, 97, 99, 116, 105, 111, 110, 34, 58, 34, 112, 105, 110, 103, 34, 125 >>

\* {"action":"error_notification"}
TextErrorNotification ==
  << 123, 34, 97, 99, 116, 105, 111, 110, 34, 58, 34, 101, 114, 114, 111, 114, 95, 110, 111, 116, 105, 102, 105, 99, 97, 116, 105, 111, 110, 34, 125 >>

\* {"action":"INIT"}
TextInit ==
  << 123, 34, 97, 99, 116, 105, 111, 110, 34, 58, 34, 73, 78, 73, 84, 34, 125 >>

\* {"action":"data_exchange"}
TextDataExchange ==
  << 123, 34, 97, 99, 116, 105, 111, 110, 34, 58, 34, 100, 97, 116, 97, 95, 101, 120, 99, 104, 97, 110, 103, 101, 34, 125 >>

\* null
TextNull ==
  << 110, 117, 108, 108 >>

\* {"action":
TextTruncated ==
  << 123, 34, 97, 99, 116, 105, 111, 110, 34, 58 >>

\* {"data":{"status":"active"}}
TextHealth ==
  << 123, 34, 100, 97, 116, 97, 34, 58, 123, 34, 115, 116, 97, 116, 117, 115, 34, 58, 34, 97, 99, 116, 105, 118, 101, 34, 125, 125 >>

\* {"data":{"acknowledged":true}}
TextAcknowledged ==
  << 123, 34, 100, 97, 116, 97, 34, 58, 123, 34, 97, 99, 107, 110, 111, 119, 108, 101, 100, 103, 101, 100, 34, 58, 116, 114, 117, 101, 125, 125 >>

\* {"screen":"OPTION_SELECTION","data":{}}
TextOptionSelection ==
  << 123, 34, 115, 99, 114, 101, 101, 110, 34, 58, 34, 79, 80, 84, 73, 79, 78, 95, 83, 69, 76, 69, 67, 84, 73, 79, 78, 34, 44, 34, 100, 97, 116, 97, 34, 58, 123, 125, 125 >>

\* {"screen":"CHECK_BALANCE","data":{}}
TextCheckBalance ==
  << 123, 34, 115, 99, 114, 101, 101, 110, 34, 58, 34, 67, 72, 69, 67, 75, 95, 66, 65, 76, 65, 78, 67, 69, 34, 44, 34, 100, 97, 116, 97, 34, 58, 123, 125, 125 >>

\* {"screen":"SUCCESS_SCREEN","data":{}}
TextSuccess ==
  << 123, 34, 115, 99, 114, 101, 101, 110, 34, 58, 34, 83, 85, 67, 67, 69, 83, 83, 95, 83, 67, 82, 69, 69, 78, 34, 44, 34, 100, 97, 116, 97, 34, 58, 123, 125, 125 >>

\* {"action":"data_exchange","data":{"product_image":[{}],"product_category":"toys"}}
TextUpload ==
  << 123, 34, 97, 99, 116, 105, 111, 110, 34, 58, 34, 100, 97, 116, 97, 95, 101, 120, 99, 104, 97, 110, 103, 101, 34, 44, 34, 100, 97, 116, 97, 34, 58, 123, 34, 112, 114, 111, 100, 117, 99, 116, 95, 105, 109, 97, 103, 101, 34, 58, 91, 123, 125, 93, 44, 34, 112, 114, 111, 100, 117, 99, 116, 95, 99, 97, 116, 101, 103, 111, 114, 121, 34, 58, 34, 116, 111, 121, 115, 34, 125, 125 >>

\* {"screen":"COLLECT_IMAGE_SCENE","data":{"error_message":"Failed to process image"}}
TextCollectImage ==
  << 123, 34, 115, 99, 114, 101, 101, 110, 34, 58, 34, 67, 79, 76, 76, 69, 67, 84, 95, 73, 77, 65, 71, 69, 95, 83, 67, 69, 78, 69, 34, 44, 34, 100, 97, 116, 97, 34, 58, 123, 34, 101, 114, 114, 111, 114, 95, 109, 101, 115, 115, 97, 103, 101, 34, 58, 34, 70, 97, 105, 108, 101, 100, 32, 116, 111, 32, 112, 114, 111, 99, 101, 115, 115, 32, 105, 109, 97, 103, 101, 34, 125, 125 >>

Json(action, screen, data) == [isNull |-> FALSE, action |-> action, screen |-> screen, data |-> data]
JsonNull == [isNull |-> TRUE, action |-> "", screen |-> "", data |-> ""]

JsonTable ==
  { << Json("ping", "", ""), TextPing >>,
    << Json("error_notification", "", ""), TextErrorNotification >>,
    << Json("INIT", "", ""), TextInit >>,
    << Json("data_exchange", "", ""), TextDataExchange >>,
    << JsonNull, TextNull >>,
    << Json("", "", "status:active"), TextHealth >>,
    << Json("", "", "acknowledged:true"), TextAcknowledged >>,
    << Json("", "OPTION_SELECTION", "{}"), TextOptionSelection >>,
    << Json("", "CHECK_BALANCE", "{}"), TextCheckBalance >>,
    << Json("", "SUCCESS_SCREEN", "{}"), TextSuccess >>,
    << Json("data_exchange", "", "product_image"), TextUpload >>,
    << Json("", "COLLECT_IMAGE_SCENE", "error_message"), TextCollectImage >> }

JsonValid(text) == \E e \in JsonTable : e[2] = text
JsonParse(text) == (CHOOSE e \in JsonTable : e[2] = text)[1]
JsonStringify(value) == (CHOOSE e \in JsonTable : e[1] = value)[2]

(***************************************************************************)
(* State                                                                   *)
(***************************************************************************)
VARIABLES
  mpc,          \* position inside decryptWhatsAppImage
  imageData,    \* its argument: { cdn_url, encryption_metadata }
  cdn,          \* what the content-delivery server answers to fetch(cdn_url)
  keyBuf, macKeyBuf, ivBuf,          \* decoded key material
  encBuf, cipherText, macTrailer,    \* fetched body and its two parts
  mac10,        \* first 10 bytes of the computed HMAC
  decrypted,    \* output of the decipher
  mresult,      \* what the call returned or threw
  calls,        \* how often the call used fetch, sha256, hmac, the decipher, console.warn
  fpc,          \* position inside the webhook handler of the flow endpoint
  requestBody,  \* req.body: { encrypted_aes_key, encrypted_flow_data, initial_vector }
  aesKeyBuffer, flowDataBuffer, initialVectorBuffer,   \* locals of decryptRequest
  decryptedBody,     \* the parsed request
  responsePayload,   \* what the action handler returned
  encryptCall,       \* key, iv and data handed to crypto.subtle.encrypt
  httpRes,           \* the HTTP response sent
  fcalls,            \* how often the request used the RSA unwrap, AES-GCM decrypt / encrypt,
                     \* an action handler, and how often it sent a response
  ferror,            \* the error thrown inside the handler's try block
  stageFailed,       \* the step of the request that threw
  lastFailure,       \* stage and error of the latest earlier request that failed
  imageOutcome,      \* what decryptWhatsAppImage returned or threw inside handleDataExchange
  inflight,          \* the handler invocations running side by side, each with its own locals
  nav,               \* the latest call of handleFlowNavigationOnly: its arguments and its result
  leads,             \* the rows of the leads table, by their number column
  leadResult,        \* what the latest persistBspLead returned, and what it found and left
  granted,           \* how often each number was given the free credits
  jobs,              \* the image requests in progress, each with its own locals
  pay,               \* the payment webhook request in progress
  delivered,         \* how many generated images were sent to the user
  bspLeadStore,      \* the in-memory store of BSP leads
  bspCalls           \* how many calls of storeBspLead there were, one by one and in bursts

mediaVars == << mpc, imageData, cdn, keyBuf, macKeyBuf, ivBuf, encBuf, cipherText,
                macTrailer, mac10, decrypted, mresult, calls >>

mediaLocals == << keyBuf, macKeyBuf, ivBuf, encBuf, cipherText, macTrailer, mac10, decrypted >>

flowLocals == << aesKeyBuffer, flowDataBuffer, initialVectorBuffer, decryptedBody,
                responsePayload, encryptCall, imageOutcome >>

flowVars == << fpc, requestBody, flowLocals, httpRes, fcalls, ferror, stageFailed, lastFailure >>

\* the state outside the flow endpoint's crypto and the media decryption
ledgerVars == << leads, leadResult, granted, jobs, pay, delivered >>

bspVars == << bspLeadStore, bspCalls >>

restVars == << nav, ledgerVars, bspVars >>

vars == << mediaVars, flowVars, inflight, restVars >>

\* what a step of decryptWhatsAppImage leaves alone
outsideMedia == << flowVars, inflight, restVars >>

\* what a step of the flow endpoint leaves alone
outsideFlow == << mediaVars, inflight, restVars >>

\* what a step outside the webhook's crypto leaves alone
webhookVars == << mediaVars, flowVars, inflight >>

\* what a step of the lead table, the wallet or the payment webhook leaves alone
outsideLedger == << webhookVars, nav, bspVars >>

(***************************************************************************)
(* The senders and the content-delivery server (inputs)                    *)
(***************************************************************************)
SenderKey == Fill(EncKeyLen, 5)
SenderMacKey == Fill(MacKeyLen, 77)
SenderIv == Fill(IvLen, 140)

PlainLens == {0, 1, MaxPlainLen - 1, MaxPlainLen}
Plain(n) == Fill(n, 200)

Trailer(ct) == SubSeq(HmacSha256(SenderMacKey, SenderIv \o ct), 1, MacTrailerLen)
Sealed(ct) == ct \o Trailer(ct)
\* buf with the lowest bit of byte j flipped
Damaged(buf, j) == [buf EXCEPT ![j] = Xor(buf[j], 1)]
\* buf with bit b (0..7) of byte j flipped
DamagedBit(buf, j, b) == [buf EXCEPT ![j] = Xor(buf[j], 2 ^ b)]

BodyKinds == {"valid", "trailer", "cipher", "cut", "unpadded", "short"}

\* the body the server holds for a plaintext of n bytes, damaged at position k
CdnBody(kind, n, k) ==
  LET ct == CbcEncrypt(SenderKey, SenderIv, Plain(n))
  IN  CASE kind = "valid"    -> Sealed(ct)
        [] kind = "trailer"  -> Damaged(Sealed(ct), Len(ct) + k)
        [] kind = "cipher"   -> Damaged(Sealed(ct), k)
        [] kind = "cut"      -> Sealed(SubSeq(ct, 1, Len(ct) - k))
        [] kind = "unpadded" -> Sealed(CbcEncryptRaw(SenderKey, SenderIv, Fill(BlockLen, 100 + k)))
        [] kind = "short"    -> Fill(k, 9)

Positions(kind) ==
  CASE kind = "valid"    -> {0}
    [] kind = "trailer"  -> 1..MacTrailerLen
    [] kind = "cipher"   -> {1, BlockLen}
    [] kind = "cut"      -> {1, BlockLen - 1}
    [] kind = "unpadded" -> {0}
    [] kind = "short"    -> {0, MacTrailerLen - 1, MacTrailerLen}

\* the plaintext lengths a kind of body is built for
Lens(kind) ==
  CASE kind = "valid" -> PlainLens
    [] kind \in {"trailer", "cipher", "cut"} -> {0, MaxPlainLen}
    [] OTHER -> {0}

Statuses == {200, 299, 300, 404}

EncryptionKeys == {<< >>, Fill(EncKeyLen - 1, 5), SenderKey, Fill(EncKeyLen + 1, 5), Fill(EncKeyLen, 6)}
HmacKeys == {Fill(MacKeyLen - 1, 77), SenderMacKey, Fill(MacKeyLen, 78)}
Ivs == {Fill(IvLen - 1, 140), SenderIv}

\* the descriptors a caller passes: the sender's own, and for the plain undamaged
\* body also ones with other key material or without URL or metadata
Descriptors(kind, n) ==
  IF kind = "valid" /\ n = 0
    THEN [url : {"cdn"}, meta : {TRUE}, key : EncryptionKeys, hkey : HmacKeys, iv : Ivs]
           \cup [url : {"", "cdn"}, meta : BOOLEAN, key : {SenderKey}, hkey : {SenderMacKey}, iv : {SenderIv}]
    ELSE [url : {"cdn"}, meta : {TRUE}, key : {SenderKey}, hkey : {SenderMacKey}, iv : {SenderIv}]

\* an expected digest: none, the right one, or another one
Digests(buf) == {<< >>, Base64Encode(Sha256(buf)), Base64Encode(Sha256(<< 1 >> \o buf))}

NoError == [kind |-> "pending", prefix |-> "", message |-> "", arg |-> 0, cause |-> "", value |-> << >>]
NoCalls == [fetch |-> 0, sha |-> 0, hmac |-> 0, decipher |-> 0, plainsha |-> 0, warn |-> 0]

InitMedia ==
  /\ mpc = "idle"
  /\ imageData = [cdn_url |-> "", has_metadata |-> FALSE,
                  encryption_metadata |-> [encryption_key |-> << >>, hmac_key |-> << >>, iv |-> << >>,
                                           encrypted_hash |-> << >>, plaintext_hash |-> << >>]]
  /\ cdn = [reachable |-> FALSE, status |-> 0, body |-> << >>]
  /\ keyBuf = << >> /\ macKeyBuf = << >> /\ ivBuf = << >>
  /\ encBuf = << >> /\ cipherText = << >> /\ macTrailer = << >>
  /\ mac10 = << >> /\ decrypted = << >>
  /\ mresult = NoError
  /\ calls = NoCalls

(***************************************************************************)
(* decryptWhatsAppImage(imageData)                                         *)
(***************************************************************************)
\* catch (error) { throw new Error(`Image decryption failed: ${error.message}`) }
MediaThrow(message, arg, cause) ==
  /\ mpc' = "thrown"
  /\ mresult' = [kind |-> "thrown", prefix |-> "Image decryption failed: ",
                 message |-> message, arg |-> arg, cause |-> cause, value |-> << >>]

\* the caller hands over a descriptor; the server holds some body for its URL
CallDecryptMedia ==
  /\ mpc = "idle"
  /\ \E kind \in BodyKinds :
       \E n \in Lens(kind), k \in Positions(kind) :
         LET body == CdnBody(kind, n, k)
         IN  \E eh \in Digests(body), ph \in Digests(Plain(n)), d \in Descriptors(kind, n) :
               /\ imageData' = [cdn_url |-> d.url, has_metadata |-> d.meta,
                                encryption_metadata |->
                                  [encryption_key |-> Base64Encode(d.key),
                                   hmac_key |-> Base64Encode(d.hkey),
                                   iv |-> Base64Encode(d.iv),
                                   encrypted_hash |-> eh,
                                   plaintext_hash |-> ph]]
               /\ cdn' = [reachable |-> FALSE, status |-> 0, body |-> body]
  /\ mpc' = "guard"
  /\ UNCHANGED << mediaLocals, mresult, calls >>
  /\ UNCHANGED outsideMedia

\* if (!cdn_url || !encryption_metadata) throw
CheckDescriptor ==
  /\ mpc = "guard"
  /\ IF imageData.cdn_url = "" \/ ~imageData.has_metadata
       THEN MediaThrow("Missing cdn_url or encryption_metadata", 0, "")
       ELSE mpc' = "decode" /\ UNCHANGED mresult
  /\ UNCHANGED << imageData, cdn, mediaLocals, calls >>
  /\ UNCHANGED outsideMedia

\* (DecodeKeys without the check of the iv)
DecodeKeysNoIvCheck ==
  /\ mpc = "decode"
  /\ LET k == Base64Decode(imageData.encryption_metadata.encryption_key)
         h == Base64Decode(imageData.encryption_metadata.hmac_key)
         v == Base64Decode(imageData.encryption_metadata.iv)
     IN  /\ keyBuf' = k /\ macKeyBuf' = h /\ ivBuf' = v
         /\ IF Len(k) # EncKeyLen THEN MediaThrow("Invalid encryption_key length", 0, "")
            ELSE IF Len(h) # MacKeyLen THEN MediaThrow("Invalid hmac_key length", 0, "")
            ELSE mpc' = "fetch" /\ UNCHANGED mresult
  /\ UNCHANGED << imageData, cdn, encBuf, cipherText, macTrailer, mac10, decrypted, calls >>
  /\ UNCHANGED outsideMedia

\* Buffer.from(.., 'base64') of the three fields, then the three length checks
DecodeKeys ==
  /\ mpc = "decode"
  /\ LET k == Base64Decode(imageData.encryption_metadata.encryption_key)
         h == Base64Decode(imageData.encryption_metadata.hmac_key)
         v == Base64Decode(imageData.encryption_metadata.iv)
     IN  /\ keyBuf' = k /\ macKeyBuf' = h /\ ivBuf' = v
         /\ IF Len(k) # EncKeyLen THEN MediaThrow("Invalid encryption_key length", 0, "")
            ELSE IF Len(h) # MacKeyLen THEN MediaThrow("Invalid hmac_key length", 0, "")
            ELSE IF Len(v) # IvLen THEN MediaThrow("Invalid iv length", 0, "")
            ELSE mpc' = "fetch" /\ UNCHANGED mresult
  /\ UNCHANGED << imageData, cdn, encBuf, cipherText, macTrailer, mac10, decrypted, calls >>
  /\ UNCHANGED outsideMedia

\* (FetchCdn taking every status below 400 for a success)
FetchCdnRedirectOk ==
  /\ mpc = "fetch"
  /\ calls' = [calls EXCEPT !.fetch = @ + 1]
  /\ \E up \in BOOLEAN, status \in Statuses :
       /\ (~up) => status = 200
       /\ cdn' = [cdn EXCEPT !.reachable = up, !.status = IF up THEN status ELSE 0]
       /\ IF ~up THEN MediaThrow("fetch failed", 0, "TypeError")
          ELSE IF ~(status >= 200 /\ status < 400)
            THEN MediaThrow("Failed to fetch image from CDN: ", status, "")
          ELSE mpc' = "read" /\ UNCHANGED mresult
  /\ UNCHANGED << imageData, mediaLocals >>
  /\ UNCHANGED outsideMedia

\* const response = await fetch(cdn_url); if (!response.ok) throw
\* (the server answers with some status, or the connection fails and fetch rejects)
FetchCdn ==
  /\ mpc = "fetch"
  /\ calls' = [calls EXCEPT !.fetch = @ + 1]
  /\ \E up \in BOOLEAN, status \in Statuses :
       /\ (~up) => status = 200
       /\ cdn' = [cdn EXCEPT !.reachable = up, !.status = IF up THEN status ELSE 0]
       /\ IF ~up THEN MediaThrow("fetch failed", 0, "TypeError")
          ELSE IF ~(status >= 200 /\ status <= 299)
            THEN MediaThrow("Failed to fetch image from CDN: ", status, "")
          ELSE mpc' = "read" /\ UNCHANGED mresult
  /\ UNCHANGED << imageData, mediaLocals >>
  /\ UNCHANGED outsideMedia

\* (ReadBody with < in place of <=)
ReadBodyStrict ==
  /\ mpc = "read"
  /\ encBuf' = cdn.body
  /\ IF Len(cdn.body) < MacTrailerLen
       THEN MediaThrow("Encrypted payload too small", 0, "")
       ELSE mpc' = "enchash" /\ UNCHANGED mresult
  /\ UNCHANGED << imageData, cdn, keyBuf, macKeyBuf, ivBuf, cipherText, macTrailer,
                  mac10, decrypted, calls >>
  /\ UNCHANGED outsideMedia

\* encBuf = Buffer.from(await response.arrayBuffer()); if (encBuf.length <= 10) throw
ReadBody ==
  /\ mpc = "read"
  /\ encBuf' = cdn.body
  /\ IF Len(cdn.body) <= MacTrailerLen
       THEN MediaThrow("Encrypted payload too small", 0, "")
       ELSE mpc' = "enchash" /\ UNCHANGED mresult
  /\ UNCHANGED << imageData, cdn, keyBuf, macKeyBuf, ivBuf, cipherText, macTrailer,
                  mac10, decrypted, calls >>
  /\ UNCHANGED outsideMedia

\* (CheckEncryptedHash that only logs a mismatch, as the plaintext check does)
CheckEncryptedHashAdvisory ==
  /\ mpc = "enchash"
  /\ LET encrypted_hash == imageData.encryption_metadata.encrypted_hash
     IN  IF encrypted_hash # << >>
           THEN calls' = [calls EXCEPT !.sha = @ + 1,
                                       !.warn = IF Base64Encode(Sha256(encBuf)) # encrypted_hash
                                                  THEN @ + 1 ELSE @]
           ELSE UNCHANGED calls
  /\ mpc' = "mac"
  /\ UNCHANGED << imageData, cdn, mediaLocals, mresult >>
  /\ UNCHANGED outsideMedia

\* if (encrypted_hash) { encSha = sha256(encBuf) in base64; if (encSha !== encrypted_hash) throw }
CheckEncryptedHash ==
  /\ mpc = "enchash"
  /\ LET encrypted_hash == imageData.encryption_metadata.encrypted_hash
     IN  IF encrypted_hash # << >>
           THEN /\ calls' = [calls EXCEPT !.sha = @ + 1]
                /\ IF Base64Encode(Sha256(encBuf)) # encrypted_hash
                     THEN MediaThrow("Encrypted hash mismatch", 0, "")
                     ELSE mpc' = "mac" /\ UNCHANGED mresult
           ELSE mpc' = "mac" /\ UNCHANGED << mresult, calls >>
  /\ UNCHANGED << imageData, cdn, mediaLocals >>
  /\ UNCHANGED outsideMedia

\* (VerifyMac comparing one byte too few)
VerifyMacShort ==
  /\ mpc = "mac"
  /\ LET trailer == SubSeq(encBuf, Len(encBuf) - MacTrailerLen + 1, Len(encBuf))
         ct      == SubSeq(encBuf, 1, Len(encBuf) - MacTrailerLen)
         macFull == HmacSha256(macKeyBuf, ivBuf \o ct)
         m10     == SubSeq(macFull, 1, MacTrailerLen)
     IN  /\ macTrailer' = trailer
         /\ cipherText' = ct
         /\ mac10' = m10
         /\ calls' = [calls EXCEPT !.hmac = @ + 1]
         /\ IF SubSeq(m10, 1, MacTrailerLen - 1) # SubSeq(trailer, 1, MacTrailerLen - 1)
              THEN MediaThrow("HMAC verification failed", 0, "")
              ELSE mpc' = "align" /\ UNCHANGED mresult
  /\ UNCHANGED << imageData, cdn, keyBuf, macKeyBuf, ivBuf, encBuf, decrypted >>
  /\ UNCHANGED outsideMedia

\* split off the last 10 bytes, HMAC-SHA256 over iv || ciphertext, compare its first 10 bytes
VerifyMac ==
  /\ mpc = "mac"
  /\ LET trailer == SubSeq(encBuf, Len(encBuf) - MacTrailerLen + 1, Len(encBuf))
         ct      == SubSeq(encBuf, 1, Len(encBuf) - MacTrailerLen)
         macFull == HmacSha256(macKeyBuf, ivBuf \o ct)
         m10     == SubSeq(macFull, 1, MacTrailerLen)
     IN  /\ macTrailer' = trailer
         /\ cipherText' = ct
         /\ mac10' = m10
         /\ calls' = [calls EXCEPT !.hmac = @ + 1]
         /\ IF m10 # trailer
              THEN MediaThrow("HMAC verification failed", 0, "")
              ELSE mpc' = "align" /\ UNCHANGED mresult
  /\ UNCHANGED << imageData, cdn, keyBuf, macKeyBuf, ivBuf, encBuf, decrypted >>
  /\ UNCHANGED outsideMedia

\* (CheckAlignment that leaves the check to the decipher)
CheckAlignmentSkipped ==
  /\ mpc = "align"
  /\ mpc' = "decipher"
  /\ UNCHANGED << imageData, cdn, mediaLocals, calls, mresult >>
  /\ UNCHANGED outsideMedia

\* if (cipherText.length % 16 !== 0) throw
CheckAlignment ==
  /\ mpc = "align"
  /\ IF Len(cipherText) % BlockLen # 0
       THEN MediaThrow("Ciphertext length not a multiple of 16: ", Len(cipherText), "")
       ELSE mpc' = "decipher" /\ UNCHANGED mresult
  /\ UNCHANGED << imageData, cdn, mediaLocals, calls >>
  /\ UNCHANGED outsideMedia

\* (the decipher with automatic padding switched off)
DecipherNoUnpad ==
  /\ mpc = "decipher"
  /\ calls' = [calls EXCEPT !.decipher = @ + 1]
  /\ decrypted' = CbcDecryptRaw(keyBuf, ivBuf, cipherText)
  /\ mpc' = "plainhash"
  /\ UNCHANGED << imageData, cdn, keyBuf, macKeyBuf, ivBuf, encBuf, cipherText, macTrailer,
                  mac10, mresult >>
  /\ UNCHANGED outsideMedia

\* createDecipheriv('aes-256-cbc', keyBuf, ivBuf), update, final; a cipher error is rethrown
Decipher ==
  /\ mpc = "decipher"
  /\ calls' = [calls EXCEPT !.decipher = @ + 1]
  /\ LET padded == CbcDecryptRaw(keyBuf, ivBuf, cipherText)
     IN  IF Pkcs7Valid(padded)
           THEN /\ decrypted' = Pkcs7Unpad(padded)
                /\ mpc' = "plainhash"
                /\ UNCHANGED mresult
           ELSE /\ MediaThrow("AES decryption failed: ", 0, "bad decrypt")
                /\ UNCHANGED decrypted
  /\ UNCHANGED << imageData, cdn, keyBuf, macKeyBuf, ivBuf, encBuf, cipherText, macTrailer, mac10 >>
  /\ UNCHANGED outsideMedia

\* (CheckPlaintextHash that throws on a mismatch, as the ciphertext check does)
CheckPlaintextHashFatal ==
  /\ mpc = "plainhash"
  /\ LET plaintext_hash == imageData.encryption_metadata.plaintext_hash
     IN  IF plaintext_hash # << >>
           THEN /\ calls' = [calls EXCEPT !.plainsha = @ + 1]
                /\ IF Base64Encode(Sha256(decrypted)) # plaintext_hash
                     THEN MediaThrow("Plaintext hash mismatch", 0, "")
                     ELSE mpc' = "return" /\ UNCHANGED mresult
           ELSE mpc' = "return" /\ UNCHANGED << mresult, calls >>
  /\ UNCHANGED << imageData, cdn, mediaLocals >>
  /\ UNCHANGED outsideMedia

\* if (plaintext_hash) { compare sha256(decrypted); a mismatch is only console.warn'ed }
CheckPlaintextHash ==
  /\ mpc = "plainhash"
  /\ LET plaintext_hash == imageData.encryption_metadata.plaintext_hash
     IN  IF plaintext_hash # << >>
           THEN calls' = [calls EXCEPT !.plainsha = @ + 1,
                                       !.warn = IF Base64Encode(Sha256(decrypted)) # plaintext_hash
                                                  THEN @ + 1 ELSE @]
           ELSE UNCHANGED calls
  /\ mpc' = "return"
  /\ UNCHANGED << imageData, cdn, mediaLocals, mresult >>
  /\ UNCHANGED outsideMedia

\* return decrypted.toString('base64')
ReturnPlaintext ==
  /\ mpc = "return"
  /\ mpc' = "returned"
  /\ mresult' = [NoError EXCEPT !.kind = "returned", !.value = Base64Encode(decrypted)]
  /\ UNCHANGED << imageData, cdn, mediaLocals, calls >>
  /\ UNCHANGED outsideMedia

\* the steps inside a call
StepsMedia ==
  \/ CheckDescriptor
  \/ DecodeKeys
  \/ FetchCdn
  \/ ReadBody
  \/ CheckEncryptedHash
  \/ VerifyMac
  \/ CheckAlignment
  \/ Decipher
  \/ CheckPlaintextHash
  \/ ReturnPlaintext

NextMedia == CallDecryptMedia \/ StepsMedia

(***************************************************************************)
(* The platform's requests to the flow endpoint (inputs)                   *)
(***************************************************************************)
SessionKey == Fill(EncKeyLen, 50)
OtherSessionKey == Fill(EncKeyLen, 51)
ShortSessionKey == Fill(5, 50)

RequestIvs == {Fill(IvLen, 9), [i \in 1..IvLen |-> 0], [i \in 1..IvLen |-> 255]}
RequestTexts == {TextPing, TextErrorNotification, TextInit, TextDataExchange, TextNull, TextTruncated}

Tampers == {"none", "no_key", "no_data", "no_iv", "key_damaged", "key_cut", "key_short",
            "key_other", "data_damaged", "data_short", "iv_other"}

TamperPositions(tamper, text) ==
  CASE tamper = "key_damaged"  -> {1, 3, 4, RsaBlockLen}
    [] tamper = "data_damaged" -> {1, Len(text), Len(text) + 1, Len(text) + GcmTagLen}
    [] OTHER -> {0}

\* the request the platform builds for a text under SessionKey and iv, then damaged on the way
FlowRequest(tamper, text, iv, j) ==
  LET wrapped == RsaOaepEncrypt(PrivateKey, SessionKey)
      data    == AesGcmEncrypt(SessionKey, iv, text)
  IN  [encrypted_aes_key |->
         CASE tamper = "no_key"      -> << >>
           [] tamper = "key_damaged" -> Base64Encode(Damaged(wrapped, j))
           [] tamper = "key_cut"     -> Base64Encode(SubSeq(wrapped, 1, Len(wrapped) - 1))
           [] tamper = "key_short"   -> Base64Encode(RsaOaepEncrypt(PrivateKey, ShortSessionKey))
           [] tamper = "key_other"   -> Base64Encode(RsaOaepEncrypt(PrivateKey, OtherSessionKey))
           [] OTHER                  -> Base64Encode(wrapped),
       encrypted_flow_data |->
         CASE tamper = "no_data"      -> << >>
           [] tamper = "data_damaged" -> Base64Encode(Damaged(data, j))
           [] tamper = "data_short"   -> Base64Encode(SubSeq(data, 1, GcmTagLen - 1))
           [] OTHER                   -> Base64Encode(data),
       initial_vector |->
         CASE tamper = "no_iv"    -> << >>
           [] tamper = "iv_other" -> Base64Encode(Damaged(iv, 1))
           [] OTHER               -> Base64Encode(iv)]

NoFlowError == [prefix |-> "", message |-> ""]
NoFlowCalls == [unwrap |-> 0, gcmDecrypt |-> 0, gcmEncrypt |-> 0, handler |-> 0, send |-> 0]
NoEncryptCall == [key |-> << >>, iv |-> << >>, data |-> << >>]
NoResponse == [status |-> 0, contentType |-> "", body |-> << >>, error |-> NoFlowError]
NoJson == Json("", "", "")

InitFlow ==
  /\ fpc = "idle"
  /\ requestBody = [encrypted_aes_key |-> << >>, encrypted_flow_data |-> << >>, initial_vector |-> << >>]
  /\ aesKeyBuffer = << >> /\ flowDataBuffer = << >> /\ initialVectorBuffer = << >>
  /\ decryptedBody = NoJson
  /\ responsePayload = NoJson
  /\ encryptCall = NoEncryptCall
  /\ imageOutcome = NoError
  /\ httpRes = NoResponse
  /\ fcalls = NoFlowCalls
  /\ ferror = NoFlowError
  /\ stageFailed = "none"
  /\ lastFailure = [stage |-> "none", error |-> NoFlowError]

\* how many invocations of the handler run side by side
MaxHandlers == 2
Handlers == 1..MaxHandlers

NoInvocation ==
  [pc |-> "idle",
   requestBody |-> [encrypted_aes_key |-> << >>, encrypted_flow_data |-> << >>, initial_vector |-> << >>],
   aesKeyBuffer |-> << >>, initialVectorBuffer |-> << >>,
   decryptedBody |-> NoJson, responsePayload |-> NoJson,
   encryptCall |-> NoEncryptCall, body |-> << >>]

InitConcurrent == inflight = [h \in Handlers |-> NoInvocation]

\* no call of handleFlowNavigationOnly yet
NoNavigation == [called |-> FALSE, action |-> "", screen |-> "",
                 data |-> [isNull |-> TRUE, selected_option |-> "", action |-> ""],
                 result |-> ""]

InitNav == nav = NoNavigation

(***************************************************************************)
(* The leads table and the phone numbers that reach it                     *)
(***************************************************************************)

\* the phone numbers as they arrive, character by character: the same number written
\* with a plus sign, bare and with a blank, another number, and no number
PlusPhone == << "+", "9", "1" >>

BarePhone == << "9", "1" >>

SpacedPhone == << "9", " ", "1" >>

OtherPhone == << "9", "2" >>

NoPhone == << >>

RawPhones == {PlusPhone, BarePhone, SpacedPhone, OtherPhone}

\* /\D/: the characters phoneNumber.replace(/\D/g, '') removes
IsDigit(c) == c \in {"0", "1", "2", "3", "4", "5", "6", "7", "8", "9"}

\* phoneNumber.replace(/\D/g, ''): the digits of the phone number
NormalizedPhone(phoneNumber) == SelectSeq(phoneNumber, IsDigit)

\* the values the number column can take
Numbers == {NormalizedPhone(p) : p \in RawPhones}

\* the credits a new lead starts with
FreeCredits == 3

\* no row for a number
NoRow == [exists |-> FALSE, name |-> "", wallet |-> 0]

\* persistBspLead has not been called
NoLeadResult == [called |-> FALSE, number |-> << >>, existed |-> FALSE, walletBefore |-> 0,
                 walletAfter |-> 0, isNew |-> FALSE, walletAdded |-> 0, error |-> FALSE]

\* the image requests that can be in progress side by side
MaxJobs == 2

Jobs == 1 .. MaxJobs

\* an image request that has not arrived
NoJob == [pc |-> "idle", kind |-> "", credits |-> 0, screen |-> "", fetched |-> FALSE,
          sent |-> FALSE, currentCredits |-> 0, newBalance |-> 0, success |-> "",
          stored |-> FALSE, notified |-> FALSE]

\* no payment webhook request in progress
NoPayment == [pc |-> "idle", secret |-> << >>, signature |-> << >>, isBuffer |-> FALSE,
              body |-> << >>, status |-> 0, creditsToAdd |-> 0, before |-> 0,
              currentCredits |-> 0, newBalance |-> 0, success |-> FALSE, stored |-> FALSE,
              message |-> ""]

\* an empty leads table, nothing in progress
\* null, where the store holds no lead
NoLead == [phoneNumber |-> << >>, chat_id |-> << >>, timestamp |-> 0]

\* the phone numbers and the session ids the store can be asked for
BspPhones == {PlusPhone, OtherPhone, BarePhone}

BspSessions == {BarePhone}

\* const bspLeadStore = { latest: null, byPhone: new Map(), bySession: new Map(),
\* recent: [] }
InitBspStore ==
  /\ bspLeadStore = [latest |-> NoLead,
                     byPhone |-> [p \in BspPhones |-> NoLead],
                     bySession |-> [c \in BspSessions |-> << >>],
                     recent |-> << >>]
  /\ bspCalls = [single |-> 0, bursts |-> 0]

InitLedger ==
  /\ leads = [n \in Numbers |-> NoRow]
  /\ leadResult = NoLeadResult
  /\ granted = [n \in Numbers |-> 0]
  /\ jobs = [j \in Jobs |-> NoJob]
  /\ pay = NoPayment
  /\ delivered = 0

Init == InitMedia /\ InitFlow /\ InitConcurrent /\ InitNav /\ InitLedger /\ InitBspStore

SpecMedia == Init /\ [][NextMedia]_vars

(***************************************************************************)
(* The webhook handler: decryptRequest, the action handlers,               *)
(* encryptResponse                                                         *)
(***************************************************************************)
\* (an error that is logged and swallowed, the handler going on to the routing)
FlowThrowSwallowed(stage, prefix, message) ==
  /\ fpc' = "route"
  /\ stageFailed' = stage
  /\ ferror' = [prefix |-> prefix, message |-> message]

\* an error thrown inside the handler's try block ends up in its catch
FlowThrow(stage, prefix, message) ==
  /\ fpc' = "catch"
  /\ stageFailed' = stage
  /\ ferror' = [prefix |-> prefix, message |-> message]

\* decryptRequest: catch (error) { throw new Error(`Decryption failed: ${error.message}`) }
\* (the catch rethrowing the error as it came)
DecryptRethrow(stage, message) == FlowThrow(stage, "", message)
DecryptThrow(stage, message) == FlowThrow(stage, "Decryption failed: ", message)

\* POST /webhook arrives with some body
ReceiveRequest ==
  /\ fpc = "idle"
  /\ \E tamper \in Tampers, text \in RequestTexts, iv \in RequestIvs :
       /\ tamper # "none" => (text \in {TextPing, TextInit} /\ iv = Fill(IvLen, 9))
       /\ \E j \in TamperPositions(tamper, text) :
            requestBody' = FlowRequest(tamper, text, iv, j)
  /\ fpc' = "fields"
  /\ UNCHANGED << flowLocals, httpRes, fcalls, ferror, stageFailed, lastFailure >>
  /\ UNCHANGED outsideFlow

\* (CheckFields that forgets initial_vector)
CheckFieldsNoIv ==
  /\ fpc = "fields"
  /\ IF \/ requestBody.encrypted_aes_key = << >>
        \/ requestBody.encrypted_flow_data = << >>
       THEN FlowThrow("fields", "", "Missing encrypted data fields in the request body")
       ELSE fpc' = "unwrap" /\ UNCHANGED << ferror, stageFailed >>
  /\ UNCHANGED << requestBody, flowLocals, httpRes, fcalls, lastFailure >>
  /\ UNCHANGED outsideFlow

\* if (!encrypted_aes_key || !encrypted_flow_data || !initial_vector) throw
CheckFields ==
  /\ fpc = "fields"
  /\ IF \/ requestBody.encrypted_aes_key = << >>
        \/ requestBody.encrypted_flow_data = << >>
        \/ requestBody.initial_vector = << >>
       THEN FlowThrow("fields", "", "Missing encrypted data fields in the request body")
       ELSE fpc' = "unwrap" /\ UNCHANGED << ferror, stageFailed >>
  /\ UNCHANGED << requestBody, flowLocals, httpRes, fcalls, lastFailure >>
  /\ UNCHANGED outsideFlow

\* aesKeyBuffer = RSA-OAEP decrypt of the decoded encrypted_aes_key
UnwrapKey ==
  /\ fpc = "unwrap"
  /\ fcalls' = [fcalls EXCEPT !.unwrap = @ + 1]
  /\ LET encryptedAesKeyBuffer == Base64Decode(requestBody.encrypted_aes_key)
     IN  IF RsaOaepValid(PrivateKey, encryptedAesKeyBuffer)
           THEN /\ aesKeyBuffer' = RsaOaepDecrypt(PrivateKey, encryptedAesKeyBuffer)
                /\ fpc' = "importkey"
                /\ UNCHANGED << ferror, stageFailed >>
           ELSE /\ DecryptThrow("unwrap", OperationErrorMessage)
                /\ UNCHANGED aesKeyBuffer
  /\ UNCHANGED << requestBody, flowDataBuffer, initialVectorBuffer, decryptedBody,
                  responsePayload, encryptCall, imageOutcome, httpRes, lastFailure >>
  /\ UNCHANGED outsideFlow

\* decode payload and IV; importKey("raw", aesKeyBuffer, AES-GCM) accepts 128, 192 and 256 bits
ImportAesKey ==
  /\ fpc = "importkey"
  /\ flowDataBuffer' = Base64Decode(requestBody.encrypted_flow_data)
  /\ initialVectorBuffer' = Base64Decode(requestBody.initial_vector)
  /\ IF ValidAesKeyLen(Len(aesKeyBuffer))
       THEN fpc' = "gcm" /\ UNCHANGED << ferror, stageFailed >>
       ELSE DecryptThrow("importkey", "Invalid key length")
  /\ UNCHANGED << requestBody, aesKeyBuffer, decryptedBody, responsePayload, encryptCall,
                  imageOutcome, httpRes, fcalls, lastFailure >>
  /\ UNCHANGED outsideFlow

\* crypto.subtle.decrypt({ name: "AES-GCM", iv, tagLength: 128 }, aesKey, flowDataBuffer)
GcmDecrypt ==
  /\ fpc = "gcm"
  /\ fcalls' = [fcalls EXCEPT !.gcmDecrypt = @ + 1]
  /\ IF AesGcmValid(aesKeyBuffer, initialVectorBuffer, flowDataBuffer)
       THEN fpc' = "parse" /\ UNCHANGED << ferror, stageFailed >>
       ELSE DecryptThrow("gcm", OperationErrorMessage)
  /\ UNCHANGED << requestBody, flowLocals, httpRes, lastFailure >>
  /\ UNCHANGED outsideFlow

\* JSON.parse(new TextDecoder().decode(decryptedBuffer))
ParseJson ==
  /\ fpc = "parse"
  /\ LET decryptedBuffer == AesGcmDecrypt(aesKeyBuffer, initialVectorBuffer, flowDataBuffer)
     IN  IF JsonValid(decryptedBuffer)
           THEN /\ decryptedBody' = JsonParse(decryptedBuffer)
                /\ fpc' = "route"
                /\ UNCHANGED << ferror, stageFailed >>
           ELSE /\ DecryptThrow("parse", "Unexpected end of JSON input")
                /\ UNCHANGED decryptedBody
  /\ UNCHANGED << requestBody, aesKeyBuffer, flowDataBuffer, initialVectorBuffer,
                  responsePayload, encryptCall, imageOutcome, httpRes, fcalls, lastFailure >>
  /\ UNCHANGED outsideFlow

\* a data exchange that carries product_image as an array whose first element has
\* encryption_metadata, with a product category and a credit on the account
IsImageUpload(body) == ~body.isNull /\ body.action = "data_exchange" /\ body.data = "product_image"

\* the screens a data exchange may answer with
ExchangeScreens == {"OPTION_SELECTION", "CHECK_BALANCE", "SUCCESS_SCREEN"}

\* ping -> handleHealthCheck, error_notification -> handleErrorNotification,
\* anything else -> handleDataExchange
RouteAction ==
  /\ fpc = "route"
  /\ ~IsImageUpload(decryptedBody)
  /\ IF decryptedBody.isNull
       THEN /\ FlowThrow("route", "", "Cannot read properties of null (reading 'action')")
            /\ UNCHANGED << responsePayload, fcalls >>
       ELSE /\ fcalls' = [fcalls EXCEPT !.handler = @ + 1]
            /\ \E screen \in ExchangeScreens :
                 responsePayload' =
                   IF decryptedBody.action = "ping" THEN Json("", "", "status:active")
                   ELSE IF decryptedBody.action = "error_notification"
                     THEN Json("", "", "acknowledged:true")
                   ELSE IF decryptedBody.action = "INIT" THEN Json("", "OPTION_SELECTION", "{}")
                   ELSE Json("", screen, "{}")
            /\ fpc' = "encrypt"
            /\ UNCHANGED << ferror, stageFailed >>
  /\ UNCHANGED << requestBody, aesKeyBuffer, flowDataBuffer, initialVectorBuffer, decryptedBody,
                  encryptCall, imageOutcome, httpRes, lastFailure >>
  /\ UNCHANGED outsideFlow

\* flippedIv = initialVectorBuffer.map((byte) => ~byte & 0xFF)
FlippedIv(iv) == [i \in 1..Len(iv) |-> FlipByte(iv[i])]

\* (encryptResponse flipping the bytes of initialVectorBuffer in place)
EncryptResponseInPlace ==
  /\ fpc = "encrypt"
  /\ LET flippedIv      == FlippedIv(initialVectorBuffer)
         responseBuffer == JsonStringify(responsePayload)
         encryptedBuffer == AesGcmEncrypt(aesKeyBuffer, flippedIv, responseBuffer)
     IN  /\ encryptCall' = [key |-> aesKeyBuffer, iv |-> flippedIv, data |-> responseBuffer]
         /\ initialVectorBuffer' = flippedIv
         /\ httpRes' = [status |-> 200, contentType |-> "application/json",
                        body |-> Base64Encode(encryptedBuffer), error |-> NoFlowError]
  /\ fcalls' = [fcalls EXCEPT !.gcmEncrypt = @ + 1, !.send = @ + 1]
  /\ fpc' = "done"
  /\ UNCHANGED << requestBody, aesKeyBuffer, flowDataBuffer, decryptedBody,
                  responsePayload, imageOutcome, ferror, stageFailed, lastFailure >>
  /\ UNCHANGED outsideFlow

\* (the response sent without res.setHeader('Content-Type', ..): a string is sent as text/html)
EncryptResponseNoHeader ==
  /\ fpc = "encrypt"
  /\ LET flippedIv      == FlippedIv(initialVectorBuffer)
         responseBuffer == JsonStringify(responsePayload)
         encryptedBuffer == AesGcmEncrypt(aesKeyBuffer, flippedIv, responseBuffer)
     IN  /\ encryptCall' = [key |-> aesKeyBuffer, iv |-> flippedIv, data |-> responseBuffer]
         /\ httpRes' = [status |-> 200, contentType |-> "text/html",
                        body |-> Base64Encode(encryptedBuffer), error |-> NoFlowError]
  /\ fcalls' = [fcalls EXCEPT !.gcmEncrypt = @ + 1, !.send = @ + 1]
  /\ fpc' = "done"
  /\ UNCHANGED << requestBody, aesKeyBuffer, flowDataBuffer, initialVectorBuffer, decryptedBody,
                  responsePayload, imageOutcome, ferror, stageFailed, lastFailure >>
  /\ UNCHANGED outsideFlow

\* (encryptResponse sending the ciphertext without its tag)
EncryptResponseTruncated ==
  /\ fpc = "encrypt"
  /\ LET flippedIv      == FlippedIv(initialVectorBuffer)
         responseBuffer == JsonStringify(responsePayload)
         encryptedBuffer == AesGcmEncrypt(aesKeyBuffer, flippedIv, responseBuffer)
     IN  /\ encryptCall' = [key |-> aesKeyBuffer, iv |-> flippedIv, data |-> responseBuffer]
         /\ httpRes' = [status |-> 200, contentType |-> "application/json",
                        body |-> Base64Encode(SubSeq(encryptedBuffer, 1, Len(responseBuffer))),
                        error |-> NoFlowError]
  /\ fcalls' = [fcalls EXCEPT !.gcmEncrypt = @ + 1, !.send = @ + 1]
  /\ fpc' = "done"
  /\ UNCHANGED << requestBody, aesKeyBuffer, flowDataBuffer, initialVectorBuffer, decryptedBody,
                  responsePayload, imageOutcome, ferror, stageFailed, lastFailure >>
  /\ UNCHANGED outsideFlow

\* encryptResponse(responsePayload, aesKeyBuffer, initialVectorBuffer), then
\* res.setHeader('Content-Type', 'application/json'); res.status(200).send(encryptedResponse)
EncryptResponse ==
  /\ fpc = "encrypt"
  /\ LET flippedIv      == FlippedIv(initialVectorBuffer)
         responseBuffer == JsonStringify(responsePayload)
         encryptedBuffer == AesGcmEncrypt(aesKeyBuffer, flippedIv, responseBuffer)
     IN  /\ encryptCall' = [key |-> aesKeyBuffer, iv |-> flippedIv, data |-> responseBuffer]
         /\ httpRes' = [status |-> 200, contentType |-> "application/json",
                        body |-> Base64Encode(encryptedBuffer), error |-> NoFlowError]
  /\ fcalls' = [fcalls EXCEPT !.gcmEncrypt = @ + 1, !.send = @ + 1]
  /\ fpc' = "done"
  /\ UNCHANGED << requestBody, aesKeyBuffer, flowDataBuffer, initialVectorBuffer, decryptedBody,
                  responsePayload, imageOutcome, ferror, stageFailed, lastFailure >>
  /\ UNCHANGED outsideFlow

\* catch (error) { res.status(500).json({ error: `Internal Server Error: ${error.message}` }) }
RespondError ==
  /\ fpc = "catch"
  /\ httpRes' = [status |-> 500, contentType |-> "application/json", body |-> << >>,
                 error |-> ferror]
  /\ fcalls' = [fcalls EXCEPT !.send = @ + 1]
  /\ fpc' = "done"
  /\ UNCHANGED << requestBody, flowLocals, ferror, stageFailed, lastFailure >>
  /\ UNCHANGED outsideFlow

\* the handler has returned; the next request starts from nothing but the environment
NextRequest ==
  /\ fpc = "done"
  /\ fpc' = "idle"
  /\ lastFailure' = IF stageFailed # "none"
                      THEN [stage |-> stageFailed, error |-> ferror]
                      ELSE lastFailure
  /\ requestBody' = [encrypted_aes_key |-> << >>, encrypted_flow_data |-> << >>, initial_vector |-> << >>]
  /\ aesKeyBuffer' = << >> /\ flowDataBuffer' = << >> /\ initialVectorBuffer' = << >>
  /\ decryptedBody' = NoJson
  /\ responsePayload' = NoJson
  /\ encryptCall' = NoEncryptCall
  /\ imageOutcome' = NoError
  /\ httpRes' = NoResponse
  /\ fcalls' = NoFlowCalls
  /\ ferror' = NoFlowError
  /\ stageFailed' = "none"
  /\ UNCHANGED outsideFlow

\* the texts of the requests that are damaged bit by bit
TamperTexts == {TextPing, TextDataExchange}

\* POST /webhook arrives with a body the platform built well and in which one bit of
\* the wrapped key or of the encrypted payload was changed on the way
ReceiveTampered ==
  /\ fpc = "idle"
  /\ \E field \in {"key", "data"}, text \in TamperTexts :
       LET good == FlowRequest("none", text, Fill(IvLen, 9), 0)
           buf  == Base64Decode(IF field = "key" THEN good.encrypted_aes_key
                                                 ELSE good.encrypted_flow_data)
       IN  /\ field = "key" => text = TextPing
           /\ \E j \in 1..Len(buf), b \in 0..7 :
                requestBody' =
                  IF field = "key"
                    THEN [good EXCEPT !.encrypted_aes_key = Base64Encode(DamagedBit(buf, j, b))]
                    ELSE [good EXCEPT !.encrypted_flow_data = Base64Encode(DamagedBit(buf, j, b))]
  /\ fpc' = "fields"
  /\ UNCHANGED << flowLocals, httpRes, fcalls, ferror, stageFailed, lastFailure >>
  /\ UNCHANGED outsideFlow

NextFlow ==
  \/ ReceiveRequest
  \/ CheckFields
  \/ UnwrapKey
  \/ ImportAesKey
  \/ GcmDecrypt
  \/ ParseJson
  \/ RouteAction
  \/ EncryptResponse
  \/ RespondError
  \/ NextRequest

SpecFlow == Init /\ [][NextFlow]_vars

\* the flow endpoint, receiving also the requests damaged in one bit
NextTamper == NextFlow \/ ReceiveTampered

SpecTamper == Init /\ [][NextTamper]_vars

(***************************************************************************)
(* handleDataExchange with an uploaded image: the call of                  *)
(* decryptWhatsAppImage inside the handler                                 *)
(***************************************************************************)
\* POST /webhook arrives with a data exchange that carries an uploaded image
ReceiveUpload ==
  /\ fpc = "idle"
  /\ requestBody' = FlowRequest("none", TextUpload, Fill(IvLen, 9), 0)
  /\ fpc' = "fields"
  /\ UNCHANGED << flowLocals, httpRes, fcalls, ferror, stageFailed, lastFailure >>
  /\ UNCHANGED outsideFlow

\* handleDataExchange reaches actualImageData = await decryptWhatsAppImage(firstImage);
\* firstImage is the first element of data.product_image, it has encryption_metadata,
\* and the server holds some body for its URL
RouteUpload ==
  /\ fpc = "route"
  /\ IsImageUpload(decryptedBody)
  /\ mpc = "idle"
  /\ \E kind \in BodyKinds :
       \E n \in Lens(kind), k \in Positions(kind) :
         LET body == CdnBody(kind, n, k)
         IN  \E eh \in Digests(body), d \in Descriptors(kind, n) :
               /\ d.meta
               /\ imageData' = [cdn_url |-> d.url, has_metadata |-> TRUE,
                                encryption_metadata |->
                                  [encryption_key |-> Base64Encode(d.key),
                                   hmac_key |-> Base64Encode(d.hkey),
                                   iv |-> Base64Encode(d.iv),
                                   encrypted_hash |-> eh,
                                   plaintext_hash |-> << >>]]
               /\ cdn' = [reachable |-> FALSE, status |-> 0, body |-> body]
  /\ mpc' = "guard"
  /\ fcalls' = [fcalls EXCEPT !.handler = @ + 1]
  /\ fpc' = "image"
  /\ UNCHANGED << mediaLocals, mresult, calls >>
  /\ UNCHANGED << requestBody, flowLocals, httpRes, ferror, stageFailed, lastFailure, inflight, restVars >>

\* the call is over: its locals are gone
MediaCallOver ==
  /\ mpc' = "idle"
  /\ imageData' = [cdn_url |-> "", has_metadata |-> FALSE,
                   encryption_metadata |-> [encryption_key |-> << >>, hmac_key |-> << >>, iv |-> << >>,
                                            encrypted_hash |-> << >>, plaintext_hash |-> << >>]]
  /\ cdn' = [reachable |-> FALSE, status |-> 0, body |-> << >>]
  /\ keyBuf' = << >> /\ macKeyBuf' = << >> /\ ivBuf' = << >>
  /\ encBuf' = << >> /\ cipherText' = << >> /\ macTrailer' = << >>
  /\ mac10' = << >> /\ decrypted' = << >>
  /\ mresult' = NoError
  /\ calls' = NoCalls

\* (handleDataExchange without its try/catch around the image processing: the error
\* of decryptWhatsAppImage goes up to the webhook handler)
ImageDecryptedRethrown ==
  /\ fpc = "image"
  /\ mpc \in {"returned", "thrown"}
  /\ imageOutcome' = mresult
  /\ IF mresult.kind = "thrown"
       THEN /\ FlowThrow("image", mresult.prefix, mresult.message)
            /\ UNCHANGED responsePayload
       ELSE /\ responsePayload' = Json("", "SUCCESS_SCREEN", "{}")
            /\ fpc' = "encrypt"
            /\ UNCHANGED << ferror, stageFailed >>
  /\ MediaCallOver
  /\ UNCHANGED << requestBody, aesKeyBuffer, flowDataBuffer, initialVectorBuffer, decryptedBody,
                  encryptCall, httpRes, fcalls, lastFailure, inflight, restVars >>

\* decryptWhatsAppImage has returned or thrown: catch (imageError) { return { screen:
\* 'COLLECT_IMAGE_SCENE', data: { error_message } } }, otherwise the success screen
ImageDecrypted ==
  /\ fpc = "image"
  /\ mpc \in {"returned", "thrown"}
  /\ imageOutcome' = mresult
  /\ responsePayload' = IF mresult.kind = "thrown"
                          THEN Json("", "COLLECT_IMAGE_SCENE", "error_message")
                          ELSE Json("", "SUCCESS_SCREEN", "{}")
  /\ fpc' = "encrypt"
  /\ MediaCallOver
  /\ UNCHANGED << requestBody, aesKeyBuffer, flowDataBuffer, initialVectorBuffer, decryptedBody,
                  encryptCall, httpRes, fcalls, ferror, stageFailed, lastFailure, inflight, restVars >>

NextExchange ==
  \/ NextFlow
  \/ ReceiveUpload
  \/ RouteUpload
  \/ StepsMedia
  \/ ImageDecrypted

SpecExchange == Init /\ [][NextExchange]_vars

(***************************************************************************)
(* Invocations of the handler side by side: each suspends at its awaits    *)
(* and another one runs; the locals of an invocation are its own           *)
(***************************************************************************)
ConcurrentKeys == {SessionKey, OtherSessionKey}
ConcurrentIvs == {Fill(IvLen, 9), [i \in 1..IvLen |-> 0]}

\* the platform's request under a session key of its own
ConcurrentRequest(key, iv, text) ==
  [encrypted_aes_key   |-> Base64Encode(RsaOaepEncrypt(PrivateKey, key)),
   encrypted_flow_data |-> Base64Encode(AesGcmEncrypt(key, iv, text)),
   initial_vector      |-> Base64Encode(iv)]

\* the invocation starts: const requestBody = req.body; await importPrivateKey(..)
ConReceive(h) ==
  /\ inflight[h].pc = "idle"
  /\ \E key \in ConcurrentKeys, iv \in ConcurrentIvs :
       inflight' = [inflight EXCEPT ![h] =
                      [NoInvocation EXCEPT !.pc = "unwrap",
                                           !.requestBody = ConcurrentRequest(key, iv, TextInit)]]
  /\ UNCHANGED << mediaVars, flowVars, restVars >>

\* decryptRequest: await crypto.subtle.decrypt({ name: "RSA-OAEP" }, privateKey, ..)
ConUnwrap(h) ==
  /\ inflight[h].pc = "unwrap"
  /\ LET buf == Base64Decode(inflight[h].requestBody.encrypted_aes_key)
     IN  /\ RsaOaepValid(PrivateKey, buf)
         /\ inflight' = [inflight EXCEPT ![h].aesKeyBuffer = RsaOaepDecrypt(PrivateKey, buf),
                                          ![h].pc = "decrypt"]
  /\ UNCHANGED << mediaVars, flowVars, restVars >>

\* decryptRequest: await importKey, await crypto.subtle.decrypt with AES-GCM, JSON.parse, return
ConDecrypt(h) ==
  /\ inflight[h].pc = "decrypt"
  /\ LET data == Base64Decode(inflight[h].requestBody.encrypted_flow_data)
         iv   == Base64Decode(inflight[h].requestBody.initial_vector)
         key  == inflight[h].aesKeyBuffer
     IN  /\ AesGcmValid(key, iv, data)
         /\ JsonValid(AesGcmDecrypt(key, iv, data))
         /\ inflight' = [inflight EXCEPT ![h].initialVectorBuffer = iv,
                                          ![h].decryptedBody = JsonParse(AesGcmDecrypt(key, iv, data)),
                                          ![h].pc = "route"]
  /\ UNCHANGED << mediaVars, flowVars, restVars >>

\* responsePayload = await handleDataExchange(decryptedBody)
ConRoute(h) ==
  /\ inflight[h].pc = "route"
  /\ inflight' = [inflight EXCEPT ![h].responsePayload =
                                     IF inflight[h].decryptedBody.action = "INIT"
                                       THEN Json("", "OPTION_SELECTION", "{}")
                                       ELSE Json("", "SUCCESS_SCREEN", "{}"),
                                   ![h].pc = "encrypt"]
  /\ UNCHANGED << mediaVars, flowVars, restVars >>

\* (encryptResponse taking key and IV from one slot that all invocations share,
\* here the first invocation's)
ConEncryptShared(h) ==
  /\ inflight[h].pc = "encrypt"
  /\ LET key  == inflight[1].aesKeyBuffer
         iv   == FlippedIv(inflight[1].initialVectorBuffer)
         data == JsonStringify(inflight[h].responsePayload)
     IN  inflight' = [inflight EXCEPT ![h].encryptCall = [key |-> key, iv |-> iv, data |-> data],
                                      ![h].body = Base64Encode(AesGcmEncrypt(key, iv, data)),
                                      ![h].pc = "done"]
  /\ UNCHANGED << mediaVars, flowVars, restVars >>

\* await encryptResponse(responsePayload, aesKeyBuffer, initialVectorBuffer); res.status(200).send(..)
ConEncrypt(h) ==
  /\ inflight[h].pc = "encrypt"
  /\ LET key  == inflight[h].aesKeyBuffer
         iv   == FlippedIv(inflight[h].initialVectorBuffer)
         data == JsonStringify(inflight[h].responsePayload)
     IN  inflight' = [inflight EXCEPT ![h].encryptCall = [key |-> key, iv |-> iv, data |-> data],
                                      ![h].body = Base64Encode(AesGcmEncrypt(key, iv, data)),
                                      ![h].pc = "done"]
  /\ UNCHANGED << mediaVars, flowVars, restVars >>

\* the invocation has returned and its locals are gone
ConFinish(h) ==
  /\ inflight[h].pc = "done"
  /\ inflight' = [inflight EXCEPT ![h] = NoInvocation]
  /\ UNCHANGED << mediaVars, flowVars, restVars >>

NextConcurrent ==
  \E h \in Handlers :
    \/ ConReceive(h)
    \/ ConUnwrap(h)
    \/ ConDecrypt(h)
    \/ ConRoute(h)
    \/ ConEncrypt(h)
    \/ ConFinish(h)

SpecConcurrent == Init /\ [][NextConcurrent]_vars

(***************************************************************************)
(* handleFlowNavigationOnly: the screen that answers a Flow interaction    *)
(***************************************************************************)

\* the actions of the bodies that reach handleFlowNavigationOnly: ping and
\* error_notification are answered before it ("" is a body without an action)
NavActions == {"INIT", "data_exchange", "BACK", "navigate", ""}

\* the screens a decrypted request can name ("" is a body without a screen)
NavScreens == {"OPTION_SELECTION", "CHECK_BALANCE", "COLLECT_INFO", "COLLECT_IMAGE_SCENE",
               "SUCCESS_SCREEN", "INSUFFICIENT_CREDITS", ""}

\* the data of a decrypted request: undefined, or an object whose selected_option and
\* action are absent (""), one of the values the handler knows, or some other text
NavData ==
  {[isNull |-> TRUE, selected_option |-> "", action |-> ""]} \cup
  [isNull : {FALSE},
   selected_option : {"", "check_balance", "generate_image", "buy_credits"},
   action : {"", "collect_info_completed", "scene_info_completed", "refresh"}]

\* data?.selected_option and data?.action: undefined when data is
optional(data, field) == IF data.isNull THEN "" ELSE data[field]

\* (handleFlowNavigationOnly with the BACK branch of handleDataExchange, which answers
\* COLLECT_INFO whatever the current screen is)
handleFlowNavigationOnlyBackToInfo(action, screen, data) ==
  IF action = "INIT" THEN "OPTION_SELECTION"
  ELSE IF action = "data_exchange" THEN
    IF optional(data, "selected_option") = "check_balance" THEN "CHECK_BALANCE"
    ELSE IF optional(data, "selected_option") = "generate_image" THEN "COLLECT_INFO"
    ELSE IF optional(data, "action") = "collect_info_completed" THEN "COLLECT_IMAGE_SCENE"
    ELSE IF optional(data, "action") = "scene_info_completed" THEN "SUCCESS_SCREEN"
    ELSE "OPTION_SELECTION"
  ELSE IF action = "BACK" THEN "COLLECT_INFO"
  ELSE "OPTION_SELECTION"

\* handleFlowNavigationOnly(decryptedBody): the screen of the object it returns.  The
\* if statements of the source are tried in their order, and the block of
\* data?.selected_option falls through when the option is neither of its two values.
handleFlowNavigationOnly(action, screen, data) ==
  IF action = "INIT" THEN "OPTION_SELECTION"
  ELSE IF action = "data_exchange" THEN
    IF optional(data, "selected_option") # ""
         /\ optional(data, "selected_option") = "check_balance" THEN "CHECK_BALANCE"
    ELSE IF optional(data, "selected_option") # ""
         /\ optional(data, "selected_option") = "generate_image" THEN "COLLECT_INFO"
    ELSE IF optional(data, "action") = "collect_info_completed" THEN "COLLECT_IMAGE_SCENE"
    ELSE IF optional(data, "action") = "scene_info_completed" THEN "SUCCESS_SCREEN"
    ELSE "OPTION_SELECTION"
  ELSE IF action = "BACK" THEN
    IF screen = "COLLECT_IMAGE_SCENE" THEN "COLLECT_INFO" ELSE "OPTION_SELECTION"
  ELSE "OPTION_SELECTION"

\* handleEncryptedFlowDataExchange hands a decrypted body to handleFlowNavigationOnly
NavigateFlow ==
  /\ \E action \in NavActions, screen \in NavScreens, data \in NavData :
       nav' = [called |-> TRUE, action |-> action, screen |-> screen, data |-> data,
               result |-> handleFlowNavigationOnly(action, screen, data)]
  /\ UNCHANGED << webhookVars, ledgerVars, bspVars >>

NextNavigation == NavigateFlow

SpecNavigation == Init /\ [][NextNavigation]_vars

(***************************************************************************)
(* storeLeadInSupabase and persistBspLead: the lead row and its free credits *)
(***************************************************************************)

\* the lead data of a submission: a phone number or none, a chat id or none, a first
\* name or none
LeadInputs == [phoneNumber : RawPhones, chat_id : {NoPhone}, firstName : {"", "Asha"}]
                \cup [phoneNumber : {NoPhone}, chat_id : {NoPhone, BarePhone},
                      firstName : {"", "Asha"}]

\* how the table answers the select, the insert and the update of one call: all three
\* succeed, or one of them fails
DbOutcomes == {[select |-> "ok", insert |-> "ok", update |-> "ok"],
               [select |-> "error", insert |-> "ok", update |-> "ok"],
               [select |-> "ok", insert |-> "error", update |-> "ok"],
               [select |-> "ok", insert |-> "ok", update |-> "error"]}

\* storeLeadInSupabase threw: nothing was created
LeadThrown(rows, number) ==
  [thrown |-> TRUE, rows |-> rows, number |-> number, isNew |-> FALSE, walletAdded |-> 0]

\* (storeLeadInSupabase granting the free credits to a lead that already has a row)
storeLeadInSupabaseRegrant(rows, leadData, db) ==
  LET phoneNumber == IF leadData.phoneNumber # NoPhone THEN leadData.phoneNumber
                                                       ELSE leadData.chat_id
      normalizedPhone == NormalizedPhone(phoneNumber)
  IN  IF phoneNumber = NoPhone THEN LeadThrown(rows, NoPhone)
      ELSE IF db.select = "error" \/ db.insert = "error" THEN LeadThrown(rows, normalizedPhone)
      ELSE [thrown |-> FALSE,
            rows |-> [rows EXCEPT ![normalizedPhone] =
                        [exists |-> TRUE, name |-> leadData.firstName, wallet |-> FreeCredits]],
            number |-> normalizedPhone, isNew |-> TRUE, walletAdded |-> FreeCredits]

\* storeLeadInSupabase(leadData) on the table rows: the table it leaves and what it returns
storeLeadInSupabase(rows, leadData, db) ==
  LET phoneNumber == IF leadData.phoneNumber # NoPhone THEN leadData.phoneNumber
                                                       ELSE leadData.chat_id
      firstName == leadData.firstName
      normalizedPhone == NormalizedPhone(phoneNumber)
      existingLead == rows[normalizedPhone]
  IN  IF phoneNumber = NoPhone THEN LeadThrown(rows, NoPhone)
      ELSE IF db.select = "error" THEN LeadThrown(rows, normalizedPhone)
      ELSE IF existingLead.exists
        THEN [thrown |-> FALSE,
              rows |-> IF existingLead.name = "" /\ firstName # "" /\ db.update = "ok"
                         THEN [rows EXCEPT ![normalizedPhone].name = firstName]
                         ELSE rows,
              number |-> normalizedPhone, isNew |-> FALSE, walletAdded |-> 0]
      ELSE IF db.insert = "error" THEN LeadThrown(rows, normalizedPhone)
      ELSE [thrown |-> FALSE,
            rows |-> [rows EXCEPT ![normalizedPhone] =
                        [exists |-> TRUE, name |-> firstName, wallet |-> FreeCredits]],
            number |-> normalizedPhone, isNew |-> TRUE, walletAdded |-> FreeCredits]

\* persistBspLead(leadData): the result of storeLeadInSupabase, or { isNew: false,
\* lead: null, walletAdded: 0, error } when it threw
PersistLead(inputs) ==
  \E leadData \in inputs, db \in DbOutcomes :
    LET r == storeLeadInSupabase(leads, leadData, db)
        had == r.number # NoPhone /\ leads[r.number].exists
    IN  /\ leads' = r.rows
        /\ leadResult' = [called |-> TRUE, number |-> r.number, existed |-> had,
                          walletBefore |-> IF had THEN leads[r.number].wallet ELSE 0,
                          walletAfter |-> IF r.number # NoPhone /\ r.rows[r.number].exists
                                            THEN r.rows[r.number].wallet ELSE 0,
                          isNew |-> r.isNew, walletAdded |-> r.walletAdded,
                          error |-> r.thrown]
        /\ granted' = IF r.walletAdded > 0
                        THEN [granted EXCEPT ![r.number] = @ + 1]
                        ELSE granted
        /\ UNCHANGED << jobs, pay, delivered, outsideLedger >>

\* POST /bsp-lead with any lead data
PersistBspLead == PersistLead(LeadInputs)

\* the lead submission of the user whose image requests and payments follow
UserLeadInputs == {[phoneNumber |-> PlusPhone, chat_id |-> NoPhone, firstName |-> "Asha"]}

PersistUserLead == PersistLead(UserLeadInputs)

(***************************************************************************)
(* The leads wallet: getLeadWallet and updateLeadWallet                    *)
(***************************************************************************)

\* getLeadWallet(phoneNumber): lead?.wallet || 0, and 0 when the select found no row or
\* failed (db is how the table answers)
getLeadWallet(rows, phoneNumber, db) ==
  LET normalizedPhone == NormalizedPhone(phoneNumber)
  IN  IF db = "error" \/ ~rows[normalizedPhone].exists THEN 0
      ELSE rows[normalizedPhone].wallet

\* updateLeadWallet(phoneNumber, newBalance): the table it leaves and the boolean it
\* returns; an update that matches no row is no error
updateLeadWallet(rows, phoneNumber, newBalance, db) ==
  LET normalizedPhone == NormalizedPhone(phoneNumber)
  IN  IF db = "error" THEN [rows |-> rows, ok |-> FALSE]
      ELSE [rows |-> IF rows[normalizedPhone].exists
                       THEN [rows EXCEPT ![normalizedPhone].wallet = newBalance]
                       ELSE rows,
            ok |-> TRUE]

\* how the table answers one call
DbAnswers == {"ok", "error"}

(***************************************************************************)
(* The payment webhook (POST /razorpay-webhook)                            *)
(***************************************************************************)

\* RAZORPAY_WEBHOOK_SECRET, and a secret that is not the server's
WebhookSecret == << 119, 104, 115, 101, 99 >>

OtherSecret == << 103, 117, 101, 115, 115 >>

\* {"event":"payment_link.paid",...,"notes":{"user_phone":"+91","credits_to_add":"10"}...}
TextPaidStarter ==
  << 123, 34, 101, 118, 101, 110, 116, 34, 58, 34, 112, 97, 121, 109, 101, 110, 116, 95, 108, 105, 110, 107, 46, 112, 97, 105, 100, 34, 44, 34, 112, 97, 121, 108, 111, 97, 100, 34, 58, 123, 34, 112, 97, 121, 109, 101, 110, 116, 95, 108, 105, 110, 107, 34, 58, 123, 34, 101, 110, 116, 105, 116, 121, 34, 58, 123, 34, 97, 109, 111, 117, 110, 116, 95, 112, 97, 105, 100, 34, 58, 50, 57, 57, 48, 48, 44, 34, 110, 111, 116, 101, 115, 34, 58, 123, 34, 117, 115, 101, 114, 95, 112, 104, 111, 110, 101, 34, 58, 34, 43, 57, 49, 34, 44, 34, 99, 114, 101, 100, 105, 116, 115, 95, 116, 111, 95, 97, 100, 100, 34, 58, 34, 49, 48, 34, 125, 125, 125, 125, 125 >>

\* the same with "credits_to_add":"25"
TextPaidBusiness ==
  << 123, 34, 101, 118, 101, 110, 116, 34, 58, 34, 112, 97, 121, 109, 101, 110, 116, 95, 108, 105, 110, 107, 46, 112, 97, 105, 100, 34, 44, 34, 112, 97, 121, 108, 111, 97, 100, 34, 58, 123, 34, 112, 97, 121, 109, 101, 110, 116, 95, 108, 105, 110, 107, 34, 58, 123, 34, 101, 110, 116, 105, 116, 121, 34, 58, 123, 34, 97, 109, 111, 117, 110, 116, 95, 112, 97, 105, 100, 34, 58, 50, 57, 57, 48, 48, 44, 34, 110, 111, 116, 101, 115, 34, 58, 123, 34, 117, 115, 101, 114, 95, 112, 104, 111, 110, 101, 34, 58, 34, 43, 57, 49, 34, 44, 34, 99, 114, 101, 100, 105, 116, 115, 95, 116, 111, 95, 97, 100, 100, 34, 58, 34, 50, 53, 34, 125, 125, 125, 125, 125 >>

\* a paid event whose notes are empty
TextPaidNoNotes ==
  << 123, 34, 101, 118, 101, 110, 116, 34, 58, 34, 112, 97, 121, 109, 101, 110, 116, 95, 108, 105, 110, 107, 46, 112, 97, 105, 100, 34, 44, 34, 112, 97, 121, 108, 111, 97, 100, 34, 58, 123, 34, 112, 97, 121, 109, 101, 110, 116, 95, 108, 105, 110, 107, 34, 58, 123, 34, 101, 110, 116, 105, 116, 121, 34, 58, 123, 34, 97, 109, 111, 117, 110, 116, 95, 112, 97, 105, 100, 34, 58, 50, 57, 57, 48, 48, 44, 34, 110, 111, 116, 101, 115, 34, 58, 123, 125, 125, 125, 125, 125 >>

\* a payment_link.expired event
TextExpired ==
  << 123, 34, 101, 118, 101, 110, 116, 34, 58, 34, 112, 97, 121, 109, 101, 110, 116, 95, 108, 105, 110, 107, 46, 101, 120, 112, 105, 114, 101, 100, 34, 44, 34, 112, 97, 121, 108, 111, 97, 100, 34, 58, 123, 34, 112, 97, 121, 109, 101, 110, 116, 95, 108, 105, 110, 107, 34, 58, 123, 34, 101, 110, 116, 105, 116, 121, 34, 58, 123, 34, 110, 111, 116, 101, 115, 34, 58, 123, 34, 117, 115, 101, 114, 95, 112, 104, 111, 110, 101, 34, 58, 34, 43, 57, 49, 34, 44, 34, 99, 114, 101, 100, 105, 116, 115, 95, 116, 111, 95, 97, 100, 100, 34, 58, 34, 49, 48, 34, 125, 125, 125, 125, 125 >>

\* a body cut short: {"event":"payment_link.paid"
TextPaidCut ==
  << 123, 34, 101, 118, 101, 110, 116, 34, 58, 34, 112, 97, 121, 109, 101, 110, 116, 95, 108, 105, 110, 107, 46, 112, 97, 105, 100, 34 >>

\* JSON.parse on the bodies of the payment webhook: the event and the notes of its
\* payment link (user_phone and credits_to_add are "" when the notes lack them)
PayTable ==
  { << [event |-> "payment_link.paid", user_phone |-> PlusPhone,
        credits_to_add |-> << "1", "0" >>], TextPaidStarter >>,
    << [event |-> "payment_link.paid", user_phone |-> PlusPhone,
        credits_to_add |-> << "2", "5" >>], TextPaidBusiness >>,
    << [event |-> "payment_link.paid", user_phone |-> NoPhone,
        credits_to_add |-> << >>], TextPaidNoNotes >>,
    << [event |-> "payment_link.expired", user_phone |-> PlusPhone,
        credits_to_add |-> << "1", "0" >>], TextExpired >> }

PayBodies == {TextPaidStarter, TextPaidBusiness, TextPaidNoNotes, TextExpired, TextPaidCut}

PayJsonValid(text) == \E e \in PayTable : e[2] = text

PayJsonParse(text) == (CHOOSE e \in PayTable : e[2] = text)[1]

\* the value of a decimal digit
DigitValue(c) == CHOOSE v \in 0..9 : << "0", "1", "2", "3", "4", "5", "6", "7", "8", "9" >>[v + 1] = c

\* parseInt(text) of a text of decimal digits
RECURSIVE parseInt(_)
parseInt(text) ==
  IF text = << >> THEN 0
  ELSE 10 * parseInt(SubSeq(text, 1, Len(text) - 1)) + DigitValue(text[Len(text)])

\* digest('hex'): two hexadecimal digits for each byte, the high one first
Hex(buf) ==
  [i \in 1..(2 * Len(buf)) |->
     IF i % 2 = 1 THEN buf[(i + 1) \div 2] \div 16 ELSE buf[i \div 2] % 16]

\* the x-razorpay-signature headers a request can carry: the server's HMAC of the body,
\* the HMAC under another secret, the server's HMAC of another body, and none
PaySignatures(body) ==
  {Hex(HmacSha256(WebhookSecret, body)), Hex(HmacSha256(OtherSecret, body)),
   Hex(HmacSha256(WebhookSecret, TextPaidStarter)), << >>}

\* the requests that can arrive: the server's secret configured or not, a body that
\* express.raw left as a Buffer or not, and a signature header
PayRequests ==
  UNION {[secret : {WebhookSecret, << >>}, body : {body}, isBuffer : BOOLEAN,
          signature : PaySignatures(body)] : body \in PayBodies}

\* the stored wallet above which the model takes no further payment
MaxWallet == 4

\* (the checks of the webhook without the comparison of the signatures)
SignatureStatusUncompared(secret, signature, isBuffer, body) ==
  IF secret = << >> THEN 500
  ELSE IF signature = << >> THEN 400
  ELSE IF ~isBuffer THEN 400
  ELSE 0

\* the checks before the event is parsed: the status of the error response, or 0 when
\* the request passes
SignatureStatus(secret, signature, isBuffer, body) ==
  IF secret = << >> THEN 500
  ELSE IF signature = << >> THEN 400
  ELSE IF ~isBuffer THEN 400
  ELSE IF signature # Hex(HmacSha256(secret, body)) THEN 400
  ELSE 0

\* a request arrives at /razorpay-webhook
ReceivePayment ==
  /\ pay.pc = "idle"
  /\ leads[NormalizedPhone(PlusPhone)].wallet < MaxWallet
  /\ \E request \in PayRequests :
       pay' = [NoPayment EXCEPT !.pc = "verify", !.secret = request.secret,
                                !.body = request.body, !.isBuffer = request.isBuffer,
                                !.signature = request.signature]
  /\ UNCHANGED << leads, leadResult, granted, jobs, delivered, outsideLedger >>

\* the handler up to its first await: the checks of secret, signature and body, the
\* parse of the event and the notes of a paid link
VerifyPayment ==
  /\ pay.pc = "verify"
  /\ LET status == SignatureStatus(pay.secret, pay.signature, pay.isBuffer, pay.body)
         event == PayJsonParse(pay.body)
     IN  IF status # 0 THEN pay' = [pay EXCEPT !.pc = "done", !.status = status]
         ELSE IF ~PayJsonValid(pay.body) THEN pay' = [pay EXCEPT !.pc = "done", !.status = 400]
         ELSE IF event.event = "payment_link.paid"
           THEN IF event.user_phone = NoPhone \/ event.credits_to_add = << >>
                  THEN pay' = [pay EXCEPT !.pc = "done", !.status = 400]
                  ELSE pay' = [pay EXCEPT !.pc = "read",
                                          !.creditsToAdd = parseInt(event.credits_to_add)]
         ELSE IF event.event = "payment_link.expired" /\ event.user_phone # NoPhone
           THEN pay' = [pay EXCEPT !.pc = "expired"]
         ELSE pay' = [pay EXCEPT !.pc = "done", !.status = 200]
  /\ UNCHANGED << leads, leadResult, granted, jobs, delivered, outsideLedger >>

\* const currentCredits = await getLeadWallet(userPhone); const newBalance =
\* currentCredits + creditsToAdd
PayRead ==
  /\ pay.pc = "read"
  /\ \E db \in DbAnswers :
       LET userPhone == PayJsonParse(pay.body).user_phone
           currentCredits == getLeadWallet(leads, userPhone, db)
       IN  pay' = [pay EXCEPT !.pc = "write",
                              !.currentCredits = currentCredits,
                              !.newBalance = currentCredits + pay.creditsToAdd]
  /\ UNCHANGED << leads, leadResult, granted, jobs, delivered, outsideLedger >>

\* const success = await updateLeadWallet(userPhone, newBalance) (before is the balance
\* the table holds when the update arrives, stored whether the update changed a row)
PayWrite ==
  /\ pay.pc = "write"
  /\ \E db \in DbAnswers :
       LET userPhone == PayJsonParse(pay.body).user_phone
           u == updateLeadWallet(leads, userPhone, pay.newBalance, db)
       IN  /\ leads' = u.rows
           /\ pay' = [pay EXCEPT !.pc = "message", !.success = u.ok,
                                 !.before = leads[NormalizedPhone(userPhone)].wallet,
                                 !.stored = (u.ok /\ leads[NormalizedPhone(userPhone)].exists)]
  /\ UNCHANGED << leadResult, granted, jobs, delivered, outsideLedger >>

\* the message to the user, the success text or the failure text, whose own failure is
\* caught; then res.status(200)
PayMessage ==
  /\ pay.pc = "message"
  /\ pay' = [pay EXCEPT !.pc = "done", !.status = 200,
                        !.message = IF pay.success THEN "Payment Successful"
                                                   ELSE "failed to update credits"]
  /\ UNCHANGED << leads, leadResult, granted, jobs, delivered, outsideLedger >>

\* payment_link.expired: the expiry message, then res.status(200)
PayExpired ==
  /\ pay.pc = "expired"
  /\ pay' = [pay EXCEPT !.pc = "done", !.status = 200, !.message = "Payment Link Expired"]
  /\ UNCHANGED << leads, leadResult, granted, jobs, delivered, outsideLedger >>

\* the request is over
PaymentOver ==
  /\ pay.pc = "done"
  /\ pay' = NoPayment
  /\ UNCHANGED << leads, leadResult, granted, jobs, delivered, outsideLedger >>

NextPayment ==
  \/ ReceivePayment
  \/ VerifyPayment
  \/ PayRead
  \/ PayWrite
  \/ PayMessage
  \/ PayExpired
  \/ PaymentOver

NextLeads == PersistBspLead \/ NextPayment

SpecLeads == Init /\ [][NextLeads]_vars

(***************************************************************************)
(* Image requests: the credit check, the image, and the deduction          *)
(***************************************************************************)

\* the phone number the flow token of the image requests carries
UserPhone == BarePhone

\* the requests that ask for the user's credits: the generate_image selection of the
\* menu and the image form of handleDataExchange, and the completed flow that
\* handleFlowCompletion receives
JobKinds == {"menu", "form", "completion"}

\* the images the model lets the requests deliver
MaxImages == 4

\* what one await of a request can do
Outcomes == {"ok", "fails"}

\* a request of the user arrives
SubmitRequest(j) ==
  /\ jobs[j].pc = "idle"
  /\ delivered < MaxImages
  /\ \E kind \in JobKinds : jobs' = [jobs EXCEPT ![j] = [NoJob EXCEPT !.pc = "check", !.kind = kind]]
  /\ UNCHANGED << leads, leadResult, granted, pay, delivered, outsideLedger >>

\* (the request goes on whatever the balance is)
CheckCreditsSkipped(j) ==
  /\ jobs[j].pc = "check"
  /\ \E db \in DbAnswers :
       LET credits == getLeadWallet(leads, UserPhone, db)
       IN  jobs' = [jobs EXCEPT ![j].credits = credits,
                                ![j].screen = IF jobs[j].kind = "menu" THEN "COLLECT_INFO" ELSE "",
                                ![j].pc = IF jobs[j].kind = "menu" THEN "answered" ELSE "media"]
  /\ UNCHANGED << leads, leadResult, granted, pay, delivered, outsideLedger >>

\* const credits = await checkUserCredits(userPhone); if (credits < 1) the request is
\* answered with INSUFFICIENT_CREDITS (the completed flow with a text that says so);
\* otherwise the menu selection is answered with COLLECT_INFO and the others go on
CheckCredits(j) ==
  /\ jobs[j].pc = "check"
  /\ \E db \in DbAnswers :
       LET credits == getLeadWallet(leads, UserPhone, db)
       IN  jobs' = [jobs EXCEPT ![j].credits = credits,
                                ![j].screen = IF credits < 1 THEN "INSUFFICIENT_CREDITS"
                                              ELSE IF jobs[j].kind = "menu" THEN "COLLECT_INFO"
                                              ELSE "",
                                ![j].pc = IF credits < 1 \/ jobs[j].kind = "menu"
                                            THEN "answered" ELSE "media"]
  /\ UNCHANGED << leads, leadResult, granted, pay, delivered, outsideLedger >>

\* the uploaded image is fetched and decrypted: when that fails the form is answered
\* with COLLECT_IMAGE_SCENE and the completed flow with an error text; otherwise the
\* form is answered with SUCCESS_SCREEN and the generation starts
ProcessImage(j) ==
  /\ jobs[j].pc = "media"
  /\ \E outcome \in Outcomes :
       jobs' = [jobs EXCEPT ![j].fetched = TRUE,
                            ![j].screen = IF jobs[j].kind # "form" THEN ""
                                          ELSE IF outcome = "ok" THEN "SUCCESS_SCREEN"
                                          ELSE "COLLECT_IMAGE_SCENE",
                            ![j].pc = IF outcome = "ok" THEN "generate"
                                      ELSE IF jobs[j].kind = "form" THEN "answered"
                                      ELSE "failed"]
  /\ UNCHANGED << leads, leadResult, granted, pay, delivered, outsideLedger >>

\* generateImageFromAi returns the image or throws
GenerateImage(j) ==
  /\ jobs[j].pc = "generate"
  /\ \E outcome \in Outcomes :
       jobs' = [jobs EXCEPT ![j].pc = IF outcome = "ok" THEN "send" ELSE "failed"]
  /\ UNCHANGED << leads, leadResult, granted, pay, delivered, outsideLedger >>

\* (the deduction follows the attempt to send the image, delivered or not)
SendImageCharged(j) ==
  /\ jobs[j].pc = "send"
  /\ \E outcome \in Outcomes :
       /\ jobs' = [jobs EXCEPT ![j].sent = (outcome = "ok"), ![j].pc = "deduct"]
       /\ delivered' = IF outcome = "ok" THEN delivered + 1 ELSE delivered
  /\ UNCHANGED << leads, leadResult, granted, pay, outsideLedger >>

\* sendWhatsAppImageMessage delivers the image or throws; the deduction is in the code
\* that follows the delivery
SendImage(j) ==
  /\ jobs[j].pc = "send"
  /\ \E outcome \in Outcomes :
       /\ jobs' = [jobs EXCEPT ![j].sent = (outcome = "ok"),
                               ![j].pc = IF outcome = "ok" THEN "deduct" ELSE "failed"]
       /\ delivered' = IF outcome = "ok" THEN delivered + 1 ELSE delivered
  /\ UNCHANGED << leads, leadResult, granted, pay, outsideLedger >>

\* (deductUserCredits without the comparison of the balance with the amount)
DeductReadUnchecked(j) ==
  /\ jobs[j].pc = "deduct"
  /\ \E db \in DbAnswers :
       LET currentCredits == getLeadWallet(leads, UserPhone, db)
       IN  jobs' = [jobs EXCEPT ![j].currentCredits = currentCredits,
                                ![j].newBalance = currentCredits - 1,
                                ![j].pc = "update"]
  /\ UNCHANGED << leads, leadResult, granted, pay, delivered, outsideLedger >>

\* deductUserCredits(userPhone, 1), its first await: const currentCredits = await
\* getLeadWallet(normalizedPhone); if (currentCredits < amount) throw, which its catch
\* turns into { success: false }; const newBalance = currentCredits - amount
DeductRead(j) ==
  /\ jobs[j].pc = "deduct"
  /\ \E db \in DbAnswers :
       LET currentCredits == getLeadWallet(leads, UserPhone, db)
       IN  IF currentCredits < 1
             THEN jobs' = [jobs EXCEPT ![j].currentCredits = currentCredits,
                                       ![j].success = "false", ![j].pc = "done"]
             ELSE jobs' = [jobs EXCEPT ![j].currentCredits = currentCredits,
                                       ![j].newBalance = currentCredits - 1,
                                       ![j].pc = "update"]
  /\ UNCHANGED << leads, leadResult, granted, pay, delivered, outsideLedger >>

\* deductUserCredits, its second await: await updateLeadWallet(normalizedPhone,
\* newBalance), whose boolean is dropped; return { success: true, newBalance }
DeductWrite(j) ==
  /\ jobs[j].pc = "update"
  /\ \E db \in DbAnswers :
       LET u == updateLeadWallet(leads, UserPhone, jobs[j].newBalance, db)
       IN  /\ leads' = u.rows
           /\ jobs' = [jobs EXCEPT ![j].success = "true",
                                   ![j].stored = (u.ok /\ leads[NormalizedPhone(UserPhone)].exists),
                                   ![j].pc = "notify"]
  /\ UNCHANGED << leadResult, granted, pay, delivered, outsideLedger >>

\* if (deductionResult.success) the text '1 credit used', with the new balance
NotifyBalance(j) ==
  /\ jobs[j].pc = "notify"
  /\ jobs' = [jobs EXCEPT ![j].notified = TRUE, ![j].pc = "done"]
  /\ UNCHANGED << leads, leadResult, granted, pay, delivered, outsideLedger >>

\* the request and its background work are over
RequestOver(j) ==
  /\ jobs[j].pc \in {"answered", "failed", "done"}
  /\ jobs' = [jobs EXCEPT ![j] = NoJob]
  /\ UNCHANGED << leads, leadResult, granted, pay, delivered, outsideLedger >>

\* a step of request j
JobStep(j) ==
  \/ SubmitRequest(j)
  \/ CheckCredits(j)
  \/ ProcessImage(j)
  \/ GenerateImage(j)
  \/ SendImage(j)
  \/ DeductRead(j)
  \/ DeductWrite(j)
  \/ NotifyBalance(j)
  \/ RequestOver(j)

NextJobs == \E j \in Jobs : JobStep(j)

\* the user's lead and the user's image requests
NextLedger == PersistUserLead \/ NextJobs

SpecLedger == Init /\ [][NextLedger]_vars

\* a paid event for the user arrives with the server's signature
ReceiveSignedPayment ==
  /\ pay.pc = "idle"
  /\ leads[NormalizedPhone(PlusPhone)].wallet < MaxWallet
  /\ pay' = [NoPayment EXCEPT !.pc = "verify", !.secret = WebhookSecret,
                              !.body = TextPaidStarter, !.isBuffer = TRUE,
                              !.signature = Hex(HmacSha256(WebhookSecret, TextPaidStarter))]
  /\ UNCHANGED << leads, leadResult, granted, jobs, delivered, outsideLedger >>

\* the user's lead, one image request at a time, and the user's payments beside it
NextWallet ==
  \/ PersistUserLead
  \/ JobStep(1)
  \/ ReceiveSignedPayment
  \/ VerifyPayment
  \/ PayRead
  \/ PayWrite
  \/ PayMessage
  \/ PaymentOver

SpecWallet == Init /\ [][NextWallet]_vars

(***************************************************************************)
(* storeBspLead and getBspLead: the in-memory store of BSP leads           *)
(***************************************************************************)

\* the leads recent keeps
RecentMax == 100

\* the lead data of a call: a phone number or none, a chat id or none
BspLeadInputs == {[phoneNumber |-> PlusPhone, chat_id |-> NoPhone],
                  [phoneNumber |-> PlusPhone, chat_id |-> BarePhone],
                  [phoneNumber |-> OtherPhone, chat_id |-> BarePhone],
                  [phoneNumber |-> NoPhone, chat_id |-> BarePhone],
                  [phoneNumber |-> NoPhone, chat_id |-> NoPhone]}

\* (storeBspLead with push in the place of unshift)
storeBspLeadPushed(store, leadData, now) ==
  LET phoneNumber == IF leadData.phoneNumber # NoPhone THEN leadData.phoneNumber
                                                       ELSE leadData.chat_id
      enrichedLead == [phoneNumber |-> phoneNumber, chat_id |-> leadData.chat_id,
                       timestamp |-> now]
      pushed == Append(store.recent, enrichedLead)
  IN  [latest |-> enrichedLead,
       byPhone |-> IF phoneNumber # NoPhone
                     THEN [store.byPhone EXCEPT ![phoneNumber] = enrichedLead]
                     ELSE store.byPhone,
       bySession |-> IF phoneNumber # NoPhone /\ leadData.chat_id # NoPhone
                       THEN [store.bySession EXCEPT ![leadData.chat_id] = phoneNumber]
                       ELSE store.bySession,
       recent |-> IF Len(pushed) > RecentMax THEN SubSeq(pushed, 1, RecentMax) ELSE pushed]

\* storeBspLead(leadData) at the time now: the store it leaves
storeBspLead(store, leadData, now) ==
  LET phoneNumber == IF leadData.phoneNumber # NoPhone THEN leadData.phoneNumber
                                                       ELSE leadData.chat_id
      enrichedLead == [phoneNumber |-> phoneNumber, chat_id |-> leadData.chat_id,
                       timestamp |-> now]
      unshifted == << enrichedLead >> \o store.recent
  IN  [latest |-> enrichedLead,
       byPhone |-> IF phoneNumber # NoPhone
                     THEN [store.byPhone EXCEPT ![phoneNumber] = enrichedLead]
                     ELSE store.byPhone,
       bySession |-> IF phoneNumber # NoPhone /\ leadData.chat_id # NoPhone
                       THEN [store.bySession EXCEPT ![leadData.chat_id] = phoneNumber]
                       ELSE store.bySession,
       recent |-> IF Len(unshifted) > RecentMax THEN SubSeq(unshifted, 1, RecentMax)
                                                ELSE unshifted]

\* getBspLead(identifier) for a phone number or a session id
getBspLead(store, identifier) ==
  IF identifier \in BspPhones /\ store.byPhone[identifier] # NoLead
    THEN store.byPhone[identifier]
  ELSE IF identifier \in BspSessions /\ store.bySession[identifier] # << >>
    THEN store.byPhone[store.bySession[identifier]]
  ELSE NoLead

\* the calls the model makes one by one, and the length of a burst of calls
MaxCalls == 3

BurstLen == 98

\* the calls so far, which is the time the next lead is stamped after
Now == bspCalls.single + BurstLen * bspCalls.bursts

\* n calls of storeBspLead with the same lead data, one after the other, the first
\* one at the time now
RECURSIVE StoreRepeatedly(_, _, _, _)
StoreRepeatedly(store, leadData, now, n) ==
  IF n = 0 THEN store
  ELSE IF n = 1 THEN storeBspLead(store, leadData, now)
  ELSE LET half == n \div 2
           first == StoreRepeatedly(store, leadData, now, half)
       IN  \* the first half of the calls is over before the second half begins
           IF first.latest.timestamp = now + half - 1
             THEN StoreRepeatedly(first, leadData, now + half, n - half)
             ELSE store

\* one call of storeBspLead
StoreBspLead ==
  /\ bspCalls.single < MaxCalls
  /\ \E leadData \in BspLeadInputs :
       bspLeadStore' = storeBspLead(bspLeadStore, leadData, Now + 1)
  /\ bspCalls' = [bspCalls EXCEPT !.single = @ + 1]
  /\ UNCHANGED << webhookVars, nav, ledgerVars >>

\* the same lead submitted BurstLen times in a row
StoreBspLeadBurst ==
  /\ bspCalls.bursts < 1
  /\ \E leadData \in BspLeadInputs :
       bspLeadStore' = StoreRepeatedly(bspLeadStore, leadData, Now + 1, BurstLen)
  /\ bspCalls' = [bspCalls EXCEPT !.bursts = @ + 1]
  /\ UNCHANGED << webhookVars, nav, ledgerVars >>

NextBspStore == StoreBspLead \/ StoreBspLeadBurst

SpecBspStore == Init /\ [][NextBspStore]_vars

Next == NextMedia \/ NextTamper \/ NextExchange \/ NextConcurrent \/ NextNavigation
          \/ NextLeads \/ NextLedger \/ NextWallet \/ NextBspStore

Spec == Init /\ [][Next]_vars

(***************************************************************************)
(* Properties of decryptWhatsAppImage                                      *)
(* Expected values are computed from the call's inputs (the descriptor and *)
(* the served body), not from the locals of the call.                      *)
(***************************************************************************)
GivenKey == Base64Decode(imageData.encryption_metadata.encryption_key)
GivenMacKey == Base64Decode(imageData.encryption_metadata.hmac_key)
GivenIv == Base64Decode(imageData.encryption_metadata.iv)

WellFormedDescriptor == imageData.cdn_url # "" /\ imageData.has_metadata

\* the call has received the body of a 2xx response
BodyRead == cdn.reachable /\ cdn.status >= 200 /\ cdn.status <= 299 /\ mpc # "read"
HasTrailer == BodyRead /\ Len(cdn.body) > 10
BodyCipher == SubSeq(cdn.body, 1, Len(cdn.body) - 10)
BodyTrailer == SubSeq(cdn.body, Len(cdn.body) - 9, Len(cdn.body))
ExpectedMac == HmacSha256(GivenMacKey, GivenIv \o BodyCipher)
TrailerDiffers == HasTrailer /\ \E i \in 1..10 : ExpectedMac[i] # BodyTrailer[i]
Misaligned == HasTrailer /\ (Len(cdn.body) - 10) % 16 # 0
EncHashMismatch ==
  /\ imageData.encryption_metadata.encrypted_hash # << >>
  /\ imageData.encryption_metadata.encrypted_hash # Base64Encode(Sha256(cdn.body))
PlainHashMismatch(plain) ==
  /\ imageData.encryption_metadata.plaintext_hash # << >>
  /\ imageData.encryption_metadata.plaintext_hash # Base64Encode(Sha256(plain))
MediaFinished == mpc \in {"returned", "thrown"}
DecipherReached == mpc = "decipher" \/ calls.decipher > 0

\* C2 as stated: the decipher is reached only after the 10-byte MAC comparison
\* succeeded, and whenever the trailer differs from the MAC the call fails with
\* "HMAC verification failed" and never invokes the decipher.
C2_MacFailureAlways ==
  /\ DecipherReached => (calls.hmac = 1 /\ ~TrailerDiffers)
  /\ (MediaFinished /\ TrailerDiffers) =>
       /\ mpc = "thrown"
       /\ mresult.message = "HMAC verification failed"
       /\ calls.decipher = 0

\* C2 amended: the decipher is reached only after the 10-byte MAC comparison
\* succeeded; whenever the trailer differs from the MAC the call fails and never
\* invokes the decipher; the failure is "HMAC verification failed" unless a supplied
\* expected ciphertext digest mismatched first, and then it is "Encrypted hash mismatch".
C2_MacBeforeDecipher ==
  /\ DecipherReached => (calls.hmac = 1 /\ ~TrailerDiffers)
  /\ (MediaFinished /\ TrailerDiffers) =>
       /\ mpc = "thrown"
       /\ mresult.message = IF EncHashMismatch THEN "Encrypted hash mismatch"
                            ELSE "HMAC verification failed"
       /\ calls.decipher = 0

C2_Witness ==
  /\ mpc = "thrown"
  /\ TrailerDiffers
  /\ mresult.message = "HMAC verification failed"
  /\ calls.hmac = 1
  /\ calls.decipher = 0

\* C3: for a descriptor with URL and metadata, a key, HMAC key or iv of the wrong
\* decoded length makes the call fail with the "Invalid <field> length" error of
\* an offending field, and no fetch has been issued.
C3_KeyLengthsBeforeFetch ==
  (/\ WellFormedDescriptor
   /\ mpc \notin {"idle", "guard", "decode"}
   /\ (Len(GivenKey) # 32 \/ Len(GivenMacKey) # 32 \/ Len(GivenIv) # 16)) =>
    /\ mpc = "thrown"
    /\ calls.fetch = 0
    /\ \/ mresult.message = "Invalid encryption_key length" /\ Len(GivenKey) # 32
       \/ mresult.message = "Invalid hmac_key length" /\ Len(GivenMacKey) # 32
       \/ mresult.message = "Invalid iv length" /\ Len(GivenIv) # 16

C3_Witness ==
  /\ mpc = "thrown"
  /\ Len(GivenKey) = 32 /\ Len(GivenMacKey) = 32 /\ Len(GivenIv) = 15
  /\ mresult.message = "Invalid iv length"
  /\ calls.fetch = 0

\* C4: when a supplied expected ciphertext digest differs from the base64 SHA-256
\* of the whole fetched buffer (trailer included), the call fails with "Encrypted
\* hash mismatch" before any MAC is computed and before any decipher call, also
\* when the MAC is wrong too.
C4_DigestBeforeMac ==
  (HasTrailer /\ EncHashMismatch) =>
    /\ mpc = "enchash" \/ (mpc = "thrown" /\ mresult.message = "Encrypted hash mismatch")
    /\ calls.hmac = 0
    /\ calls.decipher = 0
    /\ mac10 = << >>

C4_Witness ==
  /\ mpc = "thrown"
  /\ mresult.message = "Encrypted hash mismatch"
  /\ EncHashMismatch
  /\ TrailerDiffers
  /\ calls.sha = 1

\* C5: once the decipher has succeeded, the call returns the base64 of the
\* decrypted bytes, whether or not a supplied plaintext digest matches: a
\* plaintext-digest mismatch neither fails the call nor changes the value.
ExpectedPadded == CbcDecryptRaw(GivenKey, GivenIv, BodyCipher)
DecipherSucceeded == calls.decipher = 1 /\ Pkcs7Valid(ExpectedPadded)

C5_PlaintextDigestAdvisory ==
  /\ (MediaFinished /\ DecipherSucceeded) =>
       /\ mpc = "returned"
       /\ mresult.kind = "returned"
       /\ mresult.value = Base64Encode(Pkcs7Unpad(ExpectedPadded))
  /\ mpc = "returned" => DecipherSucceeded

C5_Witness ==
  /\ mpc = "returned"
  /\ PlainHashMismatch(Pkcs7Unpad(ExpectedPadded))
  /\ calls.warn = 1
  /\ Base64Decode(mresult.value) = Pkcs7Unpad(ExpectedPadded)

\* C6: a fetched body of 10 bytes or less fails with "Encrypted payload too
\* small" before any digest, MAC or decipher operation; a body of 11 bytes or
\* more passes the size check.
C6_PayloadTooSmall ==
  BodyRead =>
    IF Len(cdn.body) <= 10
      THEN /\ mpc = "thrown"
           /\ mresult.message = "Encrypted payload too small"
           /\ calls.sha = 0 /\ calls.hmac = 0 /\ calls.decipher = 0 /\ calls.plainsha = 0
      ELSE mresult.message # "Encrypted payload too small"

C6_Witness ==
  /\ mpc = "thrown"
  /\ BodyRead
  /\ Len(cdn.body) = 10
  /\ mresult.message = "Encrypted payload too small"

\* C7 as stated: the decipher is invoked only on a ciphertext whose length is a
\* multiple of 16, and a buffer with a correct MAC trailer but a ciphertext
\* length that is no multiple of 16 fails with "Ciphertext length not a multiple
\* of 16" without reaching the decipher.
C7_MisalignedAlways ==
  /\ DecipherReached => (HasTrailer /\ ~Misaligned)
  /\ (MediaFinished /\ HasTrailer /\ ~TrailerDiffers /\ Misaligned) =>
       /\ mpc = "thrown"
       /\ mresult.message = "Ciphertext length not a multiple of 16: "
       /\ calls.decipher = 0

\* C7 amended: the decipher is invoked only on a ciphertext whose length is a
\* multiple of 16; a buffer with a correct MAC trailer but a misaligned
\* ciphertext fails without reaching the decipher, with "Ciphertext length not a
\* multiple of 16" (carrying the length) unless a supplied expected ciphertext
\* digest mismatched first, and then with "Encrypted hash mismatch".
C7_AlignedBeforeDecipher ==
  /\ DecipherReached => (HasTrailer /\ ~Misaligned)
  /\ (MediaFinished /\ HasTrailer /\ ~TrailerDiffers /\ Misaligned) =>
       /\ mpc = "thrown"
       /\ calls.decipher = 0
       /\ IF EncHashMismatch
            THEN mresult.message = "Encrypted hash mismatch"
            ELSE /\ mresult.message = "Ciphertext length not a multiple of 16: "
                 /\ mresult.arg = Len(cdn.body) - 10

C7_Witness ==
  /\ mpc = "thrown"
  /\ ~TrailerDiffers
  /\ Len(cdn.body) = 25
  /\ mresult.message = "Ciphertext length not a multiple of 16: "
  /\ mresult.arg = 15
  /\ calls.hmac = 1
  /\ calls.decipher = 0

\* C8: a call issues at most one fetch; a response outside 200..299 fails the
\* call with "Failed to fetch image from CDN" carrying the status, and nothing
\* else (size check, digest, MAC, decipher) has been done.
C8_FetchOnceNoRetry ==
  /\ calls.fetch <= 1
  /\ (cdn.reachable /\ ~(cdn.status >= 200 /\ cdn.status <= 299)) =>
       /\ mpc = "thrown"
       /\ mresult.message = "Failed to fetch image from CDN: "
       /\ mresult.arg = cdn.status
       /\ calls = [NoCalls EXCEPT !.fetch = 1]
       /\ encBuf = << >> /\ cipherText = << >> /\ mac10 = << >>

C8_Witness ==
  /\ mpc = "thrown"
  /\ cdn.reachable
  /\ cdn.status = 300
  /\ mresult.arg = 300
  /\ calls.fetch = 1

(***************************************************************************)
(* Properties of the flow endpoint                                         *)
(***************************************************************************)
GivenWrappedKey == Base64Decode(requestBody.encrypted_aes_key)
GivenFlowData == Base64Decode(requestBody.encrypted_flow_data)
GivenRequestIv == Base64Decode(requestBody.initial_vector)

\* C1: whatever is encrypted for the response is encrypted under the key that
\* decrypted the request and under an IV each byte of which is the complement
\* of the request IV's byte (the two XOR to 0xFF); never under the request IV.
C1_ResponseIvFlipped ==
  fcalls.gcmEncrypt > 0 =>
    /\ Len(encryptCall.iv) = Len(GivenRequestIv)
    /\ \A i \in 1..Len(GivenRequestIv) :
         /\ Xor(encryptCall.iv[i], GivenRequestIv[i]) = 255
         /\ encryptCall.iv[i] = 255 - GivenRequestIv[i]
    /\ encryptCall.iv # GivenRequestIv
    /\ encryptCall.key = RsaOaepDecrypt(PrivateKey, GivenWrappedKey)
    /\ AesGcmValid(encryptCall.key, GivenRequestIv, GivenFlowData)
    /\ httpRes.body = Base64Encode(AesGcmEncrypt(encryptCall.key, encryptCall.iv, encryptCall.data))

C1_Witness ==
  /\ fpc = "done"
  /\ httpRes.status = 200
  /\ fcalls.gcmEncrypt = 1
  /\ GivenRequestIv = Fill(IvLen, 9)
  /\ encryptCall.iv[1] = 243

\* C9: when any of the three fields is absent the request fails with "Missing
\* encrypted data fields in the request body", and neither the key unwrap nor
\* the symmetric decryption has been performed.
AnyFieldAbsent ==
  \/ requestBody.encrypted_aes_key = << >>
  \/ requestBody.encrypted_flow_data = << >>
  \/ requestBody.initial_vector = << >>

C9_MissingField ==
  (AnyFieldAbsent /\ fpc \notin {"idle", "fields"}) =>
    /\ fpc \in {"catch", "done"}
    /\ stageFailed = "fields"
    /\ ferror = [prefix |-> "", message |-> "Missing encrypted data fields in the request body"]
    /\ fcalls.unwrap = 0
    /\ fcalls.gcmDecrypt = 0
    /\ fcalls.gcmEncrypt = 0

C9_Witness ==
  /\ fpc = "done"
  /\ requestBody.encrypted_aes_key # << >>
  /\ requestBody.encrypted_flow_data # << >>
  /\ requestBody.initial_vector = << >>
  /\ stageFailed = "fields"
  /\ httpRes.status = 500

\* C10 as stated: failures of the key unwrap, of the payload decryption and of
\* the JSON parse are reported so that they can be told apart: two requests
\* failing in different ones of these stages never get the same error.
DecryptStages == {"unwrap", "gcm", "parse"}

ValidWrappedKey == RsaOaepEncrypt(PrivateKey, SessionKey)
SingleBits == {1, 2, 4, 8, 16, 32, 64, 128}

OneBitApart(a, b) ==
  /\ Len(a) = Len(b)
  /\ LET differing == {j \in 1..Len(a) : a[j] # b[j]}
     IN  /\ Cardinality(differing) = 1
         /\ \A j \in differing : Xor(a[j], b[j]) \in SingleBits

\* the payloads the platform builds for an accepted text under the request's own IV
AcceptedTexts == {text \in RequestTexts : JsonValid(text)}

PayloadBitChanged ==
  /\ requestBody.encrypted_flow_data # << >>
  /\ requestBody.initial_vector # << >>
  /\ GivenWrappedKey = ValidWrappedKey
  /\ LET data == GivenFlowData
         iv   == GivenRequestIv
     IN  \E text \in AcceptedTexts :
           /\ Len(data) = Len(text) + GcmTagLen
           /\ OneBitApart(data, AesGcmEncrypt(SessionKey, iv, text))

WrappedKeyBitChanged ==
  /\ requestBody.encrypted_aes_key # << >>
  /\ requestBody.initial_vector # << >>
  /\ LET wrapped == GivenWrappedKey
     IN  OneBitApart(wrapped, ValidWrappedKey)
  /\ LET data == GivenFlowData
         iv   == GivenRequestIv
     IN  \E text \in AcceptedTexts :
           /\ Len(data) = Len(text) + GcmTagLen
           /\ data = AesGcmEncrypt(SessionKey, iv, text)

C11_TamperDetected ==
  LET payload == PayloadBitChanged
      wrapped == WrappedKeyBitChanged
  IN  /\ (payload \/ wrapped) =>
           /\ fpc \in {"fields", "unwrap", "importkey", "gcm", "catch", "done"}
           /\ decryptedBody = NoJson
           /\ fcalls.handler = 0
           /\ fcalls.gcmEncrypt = 0
           /\ fpc \in {"catch", "done"} => ferror.prefix = "Decryption failed: "
           /\ fpc = "done" => httpRes.status = 500
      /\ (payload /\ fpc \in {"catch", "done"}) => stageFailed = "gcm"
      /\ (wrapped /\ fpc \in {"catch", "done"}) => stageFailed \in {"unwrap", "gcm"}

\* a payload whose tag was changed in its highest bit has been refused
C11_Witness ==
  /\ fpc = "done"
  /\ PayloadBitChanged
  /\ Xor(GivenFlowData[Len(GivenFlowData)],
          AesGcmEncrypt(SessionKey, GivenRequestIv, TextDataExchange)[Len(GivenFlowData)]) = 128
  /\ stageFailed = "gcm"
  /\ fcalls.gcmDecrypt = 1

\* C12: the response body, base64-decoded and decrypted with AES-GCM (128-bit tag)
\* under the request's key and the complement of the request's IV, passes the tag
\* check and parses as JSON to the very object the action handler returned.
Complement(iv) == [i \in 1..Len(iv) |-> 255 - iv[i]]

C12_ResponseRoundTrip ==
  (fpc = "done" /\ httpRes.status = 200) =>
    LET key  == RsaOaepDecrypt(PrivateKey, GivenWrappedKey)
        iv   == Complement(GivenRequestIv)
        data == Base64Decode(httpRes.body)
    IN  /\ Len(key) = EncKeyLen
        /\ Len(iv) = IvLen
        /\ AesGcmValid(key, iv, data)
        /\ JsonValid(AesGcmDecrypt(key, iv, data))
        /\ JsonParse(AesGcmDecrypt(key, iv, data)) = responsePayload

C12_Witness ==
  /\ fpc = "done"
  /\ httpRes.status = 200
  /\ responsePayload = Json("", "SUCCESS_SCREEN", "{}")
  /\ GivenRequestIv = [i \in 1..IvLen |-> 255]
  /\ JsonParse(AesGcmDecrypt(SessionKey, [i \in 1..IvLen |-> 0], Base64Decode(httpRes.body)))
       = Json("", "SUCCESS_SCREEN", "{}")

\* C13: when the body read from the server is the AES-256-CBC/PKCS#7 encryption of a
\* plaintext P under the descriptor's 32-byte key and 16-byte IV, followed by the first
\* 10 bytes of HMAC-SHA256(hmac key, iv || ciphertext), and the descriptor carries no
\* digests, the call returns, and its result base64-decodes to P.
SealedBodies == [n \in PlainLens |-> CdnBody("valid", n, 0)]

NoDigests ==
  /\ imageData.encryption_metadata.encrypted_hash = << >>
  /\ imageData.encryption_metadata.plaintext_hash = << >>

C13_MediaRoundTrip ==
  \A n \in PlainLens :
    (/\ MediaFinished
     /\ WellFormedDescriptor
     /\ BodyRead
     /\ cdn.body = SealedBodies[n]
     /\ GivenKey = SenderKey /\ GivenMacKey = SenderMacKey /\ GivenIv = SenderIv
     /\ NoDigests) =>
       /\ mpc = "returned"
       /\ mresult.kind = "returned"
       /\ Base64Decode(mresult.value) = Plain(n)
       /\ calls.decipher = 1

\* a plaintext of a whole block, which the padding extends by a block of its own
C13_Witness ==
  /\ mpc = "returned"
  /\ NoDigests
  /\ cdn.body = SealedBodies[BlockLen]
  /\ Len(cdn.body) = 2 * BlockLen + MacTrailerLen
  /\ Base64Decode(mresult.value) = Plain(BlockLen)

\* C14: the IV flip of encryptResponse is an involution: flipping the flipped IV
\* gives the IV back; the flipped IV differs from the IV in every byte; the all-0x00
\* IV flips to the all-0xFF IV and the other way round; every byte of the result is
\* in 0..255. The same holds byte by byte for every byte value.
Bytes == 0..255
ZeroIv == [i \in 1..IvLen |-> 0]
OnesIv == [i \in 1..IvLen |-> 255]

C14_FlipInvolution ==
  /\ fcalls.gcmEncrypt > 0 =>
       /\ Len(encryptCall.iv) = IvLen
       /\ FlippedIv(encryptCall.iv) = initialVectorBuffer
       /\ FlippedIv(FlippedIv(initialVectorBuffer)) = initialVectorBuffer
       /\ \A i \in 1..IvLen :
            /\ encryptCall.iv[i] # initialVectorBuffer[i]
            /\ encryptCall.iv[i] \in Bytes
       /\ initialVectorBuffer = ZeroIv => encryptCall.iv = OnesIv
       /\ initialVectorBuffer = OnesIv => encryptCall.iv = ZeroIv
  /\ \A byte \in Bytes :
       /\ FlipByte(byte) \in Bytes
       /\ FlipByte(byte) # byte
       /\ FlipByte(FlipByte(byte)) = byte

C14_Witness ==
  /\ fcalls.gcmEncrypt = 1
  /\ initialVectorBuffer = ZeroIv
  /\ encryptCall.iv = OnesIv
  /\ FlippedIv(encryptCall.iv) = ZeroIv

\* C15: however the invocations of the handler interleave at their awaits, what an
\* invocation encrypts for its response is encrypted under the key unwrapped from its
\* own request and the complement of its own request's IV, and never with the key
\* or IV of another invocation's request.
OwnKey(h) == RsaOaepDecrypt(PrivateKey, Base64Decode(inflight[h].requestBody.encrypted_aes_key))
OwnIv(h) == Base64Decode(inflight[h].requestBody.initial_vector)

C15_RequestLocalKeys ==
  \A h \in Handlers :
    /\ inflight[h].pc \in {"decrypt", "route", "encrypt", "done"} =>
         inflight[h].aesKeyBuffer = OwnKey(h)
    /\ inflight[h].pc \in {"route", "encrypt", "done"} =>
         inflight[h].initialVectorBuffer = OwnIv(h)
    /\ inflight[h].pc = "done" =>
         /\ inflight[h].encryptCall.key = OwnKey(h)
         /\ inflight[h].encryptCall.iv = Complement(OwnIv(h))
         /\ inflight[h].body =
              Base64Encode(AesGcmEncrypt(OwnKey(h), Complement(OwnIv(h)),
                                         JsonStringify(inflight[h].responsePayload)))

\* the second invocation has answered while the first, which holds another key and
\* another IV, is still on its way
C15_Witness ==
  /\ inflight[2].pc = "done"
  /\ inflight[1].pc = "encrypt"
  /\ inflight[1].aesKeyBuffer = SessionKey
  /\ inflight[2].encryptCall.key = OtherSessionKey
  /\ inflight[1].initialVectorBuffer # inflight[2].initialVectorBuffer

\* C16: when decryptRequest or encryptResponse fails, the body of the response holds
\* no detail of the failure: it names no cause, and two requests that fail for
\* different causes (a missing field, the key unwrap, the tag check, the JSON parse)
\* are answered with the same body.
CryptoStages == {"fields", "unwrap", "importkey", "gcm", "parse"}

C16_NoFailureDetail ==
  (fpc = "done" /\ stageFailed \in CryptoStages) =>
    /\ httpRes.status = 500
    /\ httpRes.error.message = ""
    /\ lastFailure.stage \in CryptoStages => httpRes.error = lastFailure.error

\* C17: a failure of decryptRequest ends the request: the handler answers once, with
\* status 500 and no encrypted body; no action handler has been invoked, nothing has
\* been encrypted, and neither the key unwrap nor the payload decryption has been
\* tried a second time.
C17_DecryptFailureTerminal ==
  stageFailed \in CryptoStages =>
    /\ fpc \in {"catch", "done"}
    /\ fcalls.handler = 0
    /\ responsePayload = NoJson
    /\ fcalls.gcmEncrypt = 0
    /\ encryptCall = NoEncryptCall
    /\ fcalls.unwrap <= 1
    /\ fcalls.gcmDecrypt <= 1
    /\ fpc = "catch" => (fcalls.send = 0 /\ httpRes = NoResponse)
    /\ fpc = "done" =>
         /\ fcalls.send = 1
         /\ httpRes.status = 500
         /\ httpRes.body = << >>

C17_Witness ==
  /\ fpc = "done"
  /\ stageFailed = "parse"
  /\ fcalls.unwrap = 1
  /\ fcalls.gcmDecrypt = 1
  /\ fcalls.handler = 0
  /\ httpRes.status = 500

\* C18 as stated: a failure of decryptWhatsAppImage while a data exchange is handled
\* ends the request with the handler's 500 response and not with a 200 response
\* that carries an encrypted screen.
C18_MediaFailureIs500 ==
  (fpc = "done" /\ imageOutcome.kind = "thrown") =>
    /\ httpRes.status = 500
    /\ httpRes.body = << >>
    /\ fcalls.gcmEncrypt = 0

\* the failures of decryptWhatsAppImage
MediaFailures ==
  {"Missing cdn_url or encryption_metadata", "Invalid encryption_key length",
   "Invalid hmac_key length", "Invalid iv length", "fetch failed",
   "Failed to fetch image from CDN: ", "Encrypted payload too small",
   "Encrypted hash mismatch", "HMAC verification failed",
   "Ciphertext length not a multiple of 16: ", "AES decryption failed: "}

\* C18 amended: a failure of decryptWhatsAppImage while a data exchange is handled is
\* caught inside handleDataExchange, which returns the COLLECT_IMAGE_SCENE screen with
\* an error message; the request ends with status 200 and that screen encrypted as
\* any other response, and the webhook handler's catch is not entered.
C18_MediaFailureIsScreen ==
  imageOutcome.kind = "thrown" =>
    /\ fpc \in {"encrypt", "done"}
    /\ stageFailed = "none"
    /\ ferror = NoFlowError
    /\ imageOutcome.prefix = "Image decryption failed: "
    /\ imageOutcome.message \in MediaFailures
    /\ responsePayload = Json("", "COLLECT_IMAGE_SCENE", "error_message")
    /\ fpc = "done" =>
         /\ httpRes.status = 200
         /\ fcalls.gcmEncrypt = 1
         /\ fcalls.send = 1
         /\ httpRes.body =
              Base64Encode(AesGcmEncrypt(RsaOaepDecrypt(PrivateKey, GivenWrappedKey),
                                         Complement(GivenRequestIv), TextCollectImage))

C18_Witness ==
  /\ fpc = "done"
  /\ imageOutcome.kind = "thrown"
  /\ imageOutcome.message = "HMAC verification failed"
  /\ httpRes.status = 200
  /\ httpRes.body # << >>

\* C19: a request whose decryption, handling and encryption succeed is answered
\* exactly once, with status 200, content type application/json and a body that is
\* the base64 text encryptResponse returned, as it is; no request is answered twice,
\* and none is answered before its handler has finished.
C19_OneResponse ==
  /\ fcalls.send <= 1
  /\ fpc # "done" => (fcalls.send = 0 /\ httpRes = NoResponse)
  /\ fpc = "done" => fcalls.send = 1
  /\ (fpc = "done" /\ stageFailed = "none") =>
       /\ httpRes.status = 200
       /\ httpRes.contentType = "application/json"
       /\ httpRes.error = NoFlowError
       /\ fcalls.gcmEncrypt = 1
       /\ fcalls.handler = 1
       /\ httpRes.body =
            Base64Encode(AesGcmEncrypt(encryptCall.key, encryptCall.iv,
                                       JsonStringify(responsePayload)))

C19_Witness ==
  /\ fpc = "done"
  /\ stageFailed = "none"
  /\ decryptedBody.action = "data_exchange"
  /\ imageOutcome.kind = "returned"
  /\ httpRes.status = 200
  /\ fcalls.send = 1

\* C20: within one request the key is unwrapped at most once, then used for at most
\* one payload decryption and then for at most one encryption, in this order, and
\* exactly once each when the request succeeds; the key and the IV still hold, when
\* encryptResponse is called and after it, the bytes decryptRequest got from the
\* request, and the key handed to the encryption is that key; once the handler has
\* returned none of them is left for the next request.
C20_KeyUsedOnceInOrder ==
  /\ fcalls.unwrap <= 1
  /\ fcalls.gcmDecrypt <= fcalls.unwrap
  /\ fcalls.gcmEncrypt <= fcalls.gcmDecrypt
  /\ (fpc = "done" /\ stageFailed = "none") =>
       (fcalls.unwrap = 1 /\ fcalls.gcmDecrypt = 1 /\ fcalls.gcmEncrypt = 1)
  /\ stageFailed = "route" =>
       (fcalls.unwrap = 1 /\ fcalls.gcmDecrypt = 1 /\ fcalls.gcmEncrypt = 0)
  /\ fpc \in {"route", "image", "encrypt"} =>
       (fcalls.unwrap = 1 /\ fcalls.gcmDecrypt = 1 /\ fcalls.gcmEncrypt = 0)
  /\ (fpc \in {"route", "image", "encrypt"} \/ (fpc = "done" /\ stageFailed = "none")) =>
       /\ aesKeyBuffer = RsaOaepDecrypt(PrivateKey, GivenWrappedKey)
       /\ initialVectorBuffer = GivenRequestIv
  /\ fcalls.gcmEncrypt = 1 =>
       /\ encryptCall.key = RsaOaepDecrypt(PrivateKey, GivenWrappedKey)
       /\ encryptCall.iv = Complement(GivenRequestIv)
  /\ fpc = "idle" =>
       /\ aesKeyBuffer = << >>
       /\ initialVectorBuffer = << >>
       /\ encryptCall = NoEncryptCall
       /\ fcalls = NoFlowCalls

\* a second request, answered under its own key material after an earlier one failed
C20_Witness ==
  /\ fpc = "done"
  /\ stageFailed = "none"
  /\ lastFailure.stage = "gcm"
  /\ fcalls.unwrap = 1
  /\ fcalls.gcmDecrypt = 1
  /\ fcalls.gcmEncrypt = 1
  /\ initialVectorBuffer = GivenRequestIv
  /\ encryptCall.key = SessionKey

(***************************************************************************)
(* Properties of the navigation handler                                    *)
(***************************************************************************)

\* the screens handleFlowNavigationOnly may answer with
NavigationAnswers == {"OPTION_SELECTION", "CHECK_BALANCE", "COLLECT_INFO",
                      "COLLECT_IMAGE_SCENE", "SUCCESS_SCREEN"}

\* the data selects one of the two menu options
SelectsOption(data) ==
  ~data.isNull /\ data.selected_option \in {"check_balance", "generate_image"}

\* C21: handleFlowNavigationOnly answers every (action, screen, data) with one of the
\* five screens: INIT with OPTION_SELECTION; BACK with COLLECT_INFO from
\* COLLECT_IMAGE_SCENE and with OPTION_SELECTION otherwise; data_exchange with
\* CHECK_BALANCE / COLLECT_INFO for the selected options check_balance /
\* generate_image, then with COLLECT_IMAGE_SCENE for collect_info_completed, then with
\* SUCCESS_SCREEN for scene_info_completed (and for nothing else), and with
\* OPTION_SELECTION when none of these match; any other action with OPTION_SELECTION
C21_NavigationTable ==
  nav.called =>
    /\ nav.result \in NavigationAnswers
    /\ nav.action = "INIT" => nav.result = "OPTION_SELECTION"
    /\ nav.action = "BACK" /\ nav.screen = "COLLECT_IMAGE_SCENE" => nav.result = "COLLECT_INFO"
    /\ nav.action = "BACK" /\ nav.screen # "COLLECT_IMAGE_SCENE"
         => nav.result = "OPTION_SELECTION"
    /\ nav.action = "data_exchange" =>
         /\ SelectsOption(nav.data) /\ nav.data.selected_option = "check_balance"
              => nav.result = "CHECK_BALANCE"
         /\ SelectsOption(nav.data) /\ nav.data.selected_option = "generate_image"
              => nav.result = "COLLECT_INFO"
         /\ ~SelectsOption(nav.data) /\ ~nav.data.isNull
              /\ nav.data.action = "collect_info_completed"
              => nav.result = "COLLECT_IMAGE_SCENE"
         /\ ~SelectsOption(nav.data) /\ ~nav.data.isNull
              /\ nav.data.action = "scene_info_completed"
              => nav.result = "SUCCESS_SCREEN"
         /\ ~SelectsOption(nav.data)
              /\ (nav.data.isNull
                    \/ nav.data.action \notin {"collect_info_completed", "scene_info_completed"})
              => nav.result = "OPTION_SELECTION"
    /\ nav.action \notin {"INIT", "BACK", "data_exchange"} => nav.result = "OPTION_SELECTION"
    /\ nav.result = "SUCCESS_SCREEN"
         => nav.action = "data_exchange" /\ ~nav.data.isNull
              /\ nav.data.action = "scene_info_completed"

\* BACK from a screen other than COLLECT_IMAGE_SCENE was answered with OPTION_SELECTION
C21_Witness ==
  /\ nav.called
  /\ nav.action = "BACK"
  /\ nav.screen = "COLLECT_INFO"
  /\ nav.result = "OPTION_SELECTION"

(***************************************************************************)
(* Properties of the lead table                                            *)
(***************************************************************************)

\* C24: storeLeadInSupabase creates a row with wallet 3 exactly when the digits of the
\* phone number have no row (and the table answers), and then reports isNew = true and
\* walletAdded = 3; when the number has a row it leaves the wallet as it is and reports
\* isNew = false and walletAdded = 0; no number is given the free credits twice
C24_FreeCreditsOnce ==
  /\ \A n \in Numbers : granted[n] <= 1
  /\ leadResult.called =>
       /\ \A i \in 1..Len(leadResult.number) : IsDigit(leadResult.number[i])
       /\ leadResult.existed =>
            /\ leadResult.walletAfter = leadResult.walletBefore
            /\ ~leadResult.isNew
            /\ leadResult.walletAdded = 0
       /\ leadResult.isNew <=> (~leadResult.existed /\ ~leadResult.error)
       /\ leadResult.isNew =>
            /\ leadResult.walletAfter = 3
            /\ leadResult.walletAdded = 3
       /\ ~leadResult.isNew => leadResult.walletAdded = 0

\* a lead whose wallet a payment had raised to 13 submitted its number again and kept
\* its 13 credits
C24_Witness ==
  /\ leadResult.called
  /\ leadResult.existed
  /\ leadResult.walletBefore = 13
  /\ leads[BarePhone].wallet = 13
  /\ granted[BarePhone] = 1
  /\ ~leadResult.isNew

(***************************************************************************)
(* Properties of the payment webhook                                       *)
(***************************************************************************)

\* the request in progress has the server's secret configured, a Buffer body, and a
\* signature header equal to the hexadecimal HMAC-SHA256 of that body under the secret
ValidlySigned ==
  /\ pay.secret = WebhookSecret
  /\ pay.isBuffer
  /\ pay.signature = Hex(HmacSha256(WebhookSecret, pay.body))

\* C26: the payment webhook reads or writes a wallet, or sends a message, only for a
\* request whose x-razorpay-signature is the hexadecimal HMAC-SHA256 of the raw body
\* under the configured secret; a request with a missing or other signature, a body
\* that is no Buffer, or no configured secret ends with an error status (500 without
\* the secret, otherwise 400), with no wallet stored and no message sent
C26_OnlySignedPayments ==
  /\ (pay.pc \in {"read", "write", "message", "expired"} \/ pay.stored \/ pay.message # "")
       => ValidlySigned
  /\ (pay.pc = "done" /\ ~ValidlySigned) =>
       /\ pay.status = IF pay.secret = << >> THEN 500 ELSE 400
       /\ ~pay.stored
       /\ pay.message = ""

\* a body asking for 25 credits came with the server's signature of the body asking for
\* 10, and was answered with 400
C26_Witness ==
  /\ pay.pc = "done"
  /\ pay.status = 400
  /\ pay.secret = WebhookSecret
  /\ pay.isBuffer
  /\ pay.body = TextPaidBusiness
  /\ pay.signature = Hex(HmacSha256(WebhookSecret, TextPaidStarter))
  /\ ~pay.stored

(***************************************************************************)
(* Properties of the credits of the image requests                         *)
(***************************************************************************)

\* the stored wallet of the user of the image requests
UserWallet == leads[NormalizedPhone(UserPhone)].wallet

\* request j has begun its deduction: deductUserCredits was called, returned, or wrote
Deducting(j) ==
  \/ jobs[j].pc \in {"update", "notify"}
  \/ jobs[j].success # ""
  \/ jobs[j].stored

\* request j failed to decrypt its image, to generate the image or to send it
ImageFailed(j) ==
  \/ jobs[j].pc = "failed"
  \/ jobs[j].pc = "answered" /\ jobs[j].screen = "COLLECT_IMAGE_SCENE"

\* C22: a request deducts only after its generated image was sent to the user, and what
\* it writes is the balance it read less 1; a request whose media decryption, image
\* generation or image sending failed calls no deduction and writes no wallet
C22_DeductAfterDelivery ==
  \A j \in Jobs :
    /\ Deducting(j) => jobs[j].sent
    /\ (jobs[j].pc \in {"update", "notify"} \/ jobs[j].stored)
         => jobs[j].newBalance = jobs[j].currentCredits - 1
    /\ ImageFailed(j) => ~Deducting(j)

\* one request has sent its image and stored the wallet 2, another one has failed after
\* its image was fetched
C22_Witness ==
  \E j, k \in Jobs :
    /\ jobs[j].pc = "notify"
    /\ jobs[j].sent
    /\ jobs[j].stored
    /\ UserWallet = 2
    /\ jobs[k].pc = "failed"
    /\ jobs[k].fetched

\* request j has read the balance for its credit check
Checked(j) == jobs[j].pc \notin {"idle", "check"}

\* C23: when the balance read for the credit check is below 1, the generate_image
\* selection and the submitted image form are answered with INSUFFICIENT_CREDITS, and
\* the request fetches no media, sends no image and deducts nothing
C23_InsufficientCredits ==
  \A j \in Jobs :
    (Checked(j) /\ jobs[j].credits < 1) =>
      /\ jobs[j].kind \in {"menu", "form"} => jobs[j].screen = "INSUFFICIENT_CREDITS"
      /\ jobs[j].pc = "answered"
      /\ ~jobs[j].fetched
      /\ ~jobs[j].sent
      /\ ~Deducting(j)

\* the user has spent the three free credits, and the image form of a further request
\* was answered with INSUFFICIENT_CREDITS
C23_Witness ==
  \E j \in Jobs :
    /\ leads[NormalizedPhone(UserPhone)].exists
    /\ UserWallet = 0
    /\ delivered = 3
    /\ jobs[j].kind = "form"
    /\ jobs[j].pc = "answered"
    /\ jobs[j].screen = "INSUFFICIENT_CREDITS"

(***************************************************************************)
(* Properties of the wallet under deductions and payments                  *)
(***************************************************************************)

\* request j has read the balance for its deduction
DeductionRead(j) == jobs[j].pc \in {"update", "notify", "done"}

\* C27: no stored wallet is ever negative, whatever the order of the steps of
\* deductUserCredits and of the payment webhook; a deduction that read a balance below
\* the amount returns success = false and writes nothing
C27_WalletNeverNegative ==
  /\ \A n \in Numbers : leads[n].wallet >= 0
  /\ pay.newBalance >= 0
  /\ \A j \in Jobs :
       /\ jobs[j].pc = "update" => (jobs[j].currentCredits >= 1 /\ jobs[j].newBalance >= 0)
       /\ (DeductionRead(j) /\ jobs[j].currentCredits < 1) =>
            /\ jobs[j].success = "false"
            /\ jobs[j].pc = "done"
            /\ ~jobs[j].stored

\* a payment stored 13 between the read and the write of a deduction that had read 3,
\* and the deduction then stored 2
C27_Witness ==
  /\ pay.stored
  /\ pay.newBalance = 13
  /\ jobs[1].pc = "notify"
  /\ jobs[1].stored
  /\ jobs[1].currentCredits = 3
  /\ UserWallet = 2

\* no request is between the delivery of its image and the end of its deduction
DeductionsSettled == \A j \in Jobs : jobs[j].pc \notin {"deduct", "update"}

\* C28: once the deductions of the delivered images are over, the images delivered to
\* the user do not exceed the credits the wallet has lost (the free credits granted less
\* the stored wallet), whatever the order of the steps of the requests
C28_EachImageCostsOne ==
  DeductionsSettled
    => delivered <= FreeCredits * granted[NormalizedPhone(UserPhone)] - UserWallet

\* C29: a verified payment_link.paid event stores the balance held before plus
\* credits_to_add, never less, and the success message is sent only when the update
\* was stored
C29_PaymentAddsCredits ==
  (pay.pc \in {"message", "done"} /\ pay.creditsToAdd > 0) =>
    /\ pay.stored => pay.newBalance = pay.before + pay.creditsToAdd
    /\ pay.message = "Payment Successful" => pay.stored

\* C30: deductUserCredits returns success = true only when the stored wallet was
\* updated to the new balance, and the text '1 credit used' is sent only then
C30_SuccessMeansStored ==
  \A j \in Jobs :
    /\ jobs[j].success = "true" => jobs[j].stored
    /\ jobs[j].notified => jobs[j].stored

(***************************************************************************)
(* Properties of the in-memory lead store                                  *)
(***************************************************************************)

\* the leads of recent that were stored for the phone number p
RecentFor(p) == {i \in 1..Len(bspLeadStore.recent) : bspLeadStore.recent[i].phoneNumber = p}

\* C25: recent holds at most 100 leads, newest first; latest is the lead of the most
\* recent call and is recent[0]; byPhone maps a phone number to the lead of the latest
\* call for it; every phone number bySession maps a session to is a key of byPhone, so
\* getBspLead finds a lead for every recorded session
C25_LeadStoreShape ==
  LET recent == bspLeadStore.recent
  IN  /\ Len(recent) <= 100
      /\ Len(recent) = IF Now < 100 THEN Now ELSE 100
      /\ \A i \in 1..Len(recent) : recent[i].timestamp = Now - i + 1
      /\ Now > 0 => (bspLeadStore.latest = recent[1] /\ bspLeadStore.latest.timestamp = Now)
      /\ \A p \in BspPhones :
           /\ RecentFor(p) # {}
                => \E i \in RecentFor(p) :
                     /\ bspLeadStore.byPhone[p] = recent[i]
                     /\ \A k \in RecentFor(p) : i <= k
           /\ bspLeadStore.byPhone[p] # NoLead => bspLeadStore.byPhone[p].phoneNumber = p
      /\ \A c \in BspSessions :
           bspLeadStore.bySession[c] # << >> =>
             /\ bspLeadStore.bySession[c] \in BspPhones
             /\ bspLeadStore.byPhone[bspLeadStore.bySession[c]] # NoLead
             /\ getBspLead(bspLeadStore, c) # NoLead

\* more than 100 calls were made, recent holds the latest 100 of them, and the session
\* of a lead that has left recent still finds the lead of its phone number
C25_Witness ==
  /\ Now = 101
  /\ Len(bspLeadStore.recent) = 100
  /\ bspLeadStore.recent[100].timestamp = 2
  /\ bspLeadStore.bySession[BarePhone] = OtherPhone
  /\ RecentFor(OtherPhone) = {}
  /\ getBspLead(bspLeadStore, BarePhone).timestamp = 1

====
